---- MODULE Spec2Model ----
(***************************************************************************)
(* MikroEvent (src/src/MikroEvent.ts): a registry of named targets, a      *)
(* local notifier (node:events EventEmitter), the emit operation that fans *)
(* one event out to the matching local and remote targets, and             *)
(* handleIncomingEvent, which hands an inbound envelope to the notifier on *)
(* the next tick.                                                          *)
(*                                                                         *)
(* Values.  JavaScript `undefined` for a string field is the string        *)
(* Undefined; an optional array or object is <<>> (omitted) or <<v>>       *)
(* (supplied).  A headers object is a total function over HeaderKeys whose *)
(* missing keys map to Absent.  The registry `this.targets` is a plain     *)
(* object: an ordered map (insertion order of its own keys) that also      *)
(* answers lookups of the keys it inherits from Object.prototype.          *)
(*                                                                         *)
(* Assumed of the callers: target names are not array indices (such keys   *)
(* would be enumerated first, in numeric order), every call passes arrays  *)
(* and objects of its own (addTarget and updateTarget store the events     *)
(* array they are given, not a copy), the emitted data can be serialised   *)
(* by JSON.stringify, and the handlers of Handlers return or throw without *)
(* calling back into the instance (those of CallingHandlers make one       *)
(* registry call each).                                                    *)
(***************************************************************************)
EXTENDS Naturals, Sequences, FiniteSets, TLC

VARIABLES
    targets,        \* this.targets: sequence of [key, obj], in key insertion order
    inherited,      \* properties set on the object found under an inherited key
    listeners,      \* this.emitter: event name -> sequence of [h, once]
    errorHandler,   \* this.options.errorHandler: "returns" or "mayThrow"
    emits,          \* the emit calls: position, snapshot, requests, result
    running,        \* the emit call whose synchronous part is executing (0: none)
    last,           \* the most recent call: [op, name, arg, before, ret]
    ticks,          \* the process.nextTick queue: the deferred deliveries waiting
    inbound,        \* the most recent deferred delivery
    reqs            \* the requests given to the middleware: position, response

vars == <<targets, inherited, listeners, errorHandler, emits, running, last,
          ticks, inbound, reqs>>

----------------------------------------------------------------------------
\* Bounds of the model.

MaxEvents == 2      \* longest events list passed to one call
MaxBatch == 2       \* longest target list passed to one addTarget call
MaxHandlers == 2    \* most listeners registered for one event name
MaxEmits == 1       \* emit calls followed through to their result
MaxOverlap == 2     \* emit calls in progress at once where calls overlap
MaxTicks == 1       \* deferred deliveries waiting at once
MaxRequests == 1    \* requests in the hands of the middleware at once
MaxChunks == 2      \* most chunks one request body is streamed in

----------------------------------------------------------------------------
\* Value universes.

Undefined == "undefined"
Absent == "absent"
None == <<>>
Some(v) == <<v>>

OwnNames == {"a", "b"}
\* A key every plain object inherits from Object.prototype.
InheritedNames == {"toString"}
Names == OwnNames \cup InheritedNames

Wildcard == "*"
EventNames == {"x", "y"}
HeaderKeys == {"Content-Type", "k"}

NoHeaders == [k \in HeaderKeys |-> Absent]

RECURSIVE SeqsUpTo(_, _)
SeqsUpTo(S, n) ==
    IF n = 0 THEN {<<>>}
    ELSE LET shorter == SeqsUpTo(S, n - 1)
         IN shorter \cup {Append(s, x) : s \in {t \in shorter : Len(t) = n - 1}, x \in S}

\* x || d for an optional array or object.
OrElse(opt, d) == IF opt = None THEN d ELSE opt[1]

\* Array.prototype.includes
Includes(s, x) == \E i \in 1..Len(s) : s[i] = x

NoDuplicates(s) == \A i, j \in 1..Len(s) : s[i] = s[j] => i = j

Count(s, x) == Cardinality({i \in 1..Len(s) : s[i] = x})

IsPrefix(s, t) == Len(s) <= Len(t) /\ SubSeq(t, 1, Len(s)) = s

----------------------------------------------------------------------------
\* The registry (this.targets).

Keys(reg) == {reg[i].key : i \in 1..Len(reg)}

IndexOf(reg, name) == CHOOSE i \in 1..Len(reg) : reg[i].key = name

\* this.targets[name] is truthy: an own key, or a key inherited from Object.prototype.
Exists(reg, name) == name \in Keys(reg) \/ name \in InheritedNames

\* this.targets[name] of an own key.
Get(reg, name) == reg[IndexOf(reg, name)].obj

\* The object literal addTarget stores.
NewTarget(t) ==
    [name |-> t.name,
     url |-> t.url,
     headers |-> OrElse(t.headers, NoHeaders),
     events |-> OrElse(t.events, <<>>)]

\* AddOne as it would be if a registered name were overwritten before the refusal.
AddOneOverwriting(reg, t) ==
    IF t.name \in Keys(reg)
    THEN [reg |-> [reg EXCEPT ![IndexOf(reg, t.name)].obj = NewTarget(t)], ok |-> FALSE]
    ELSE IF t.name \in InheritedNames
    THEN [reg |-> reg, ok |-> FALSE]
    ELSE [reg |-> Append(reg, [key |-> t.name, obj |-> NewTarget(t)]), ok |-> TRUE]

\* AddOne as it would be if a target were stored under a name already taken,
\* next to the one there is.
AddOneAgain(reg, t) ==
    [reg |-> Append(reg, [key |-> t.name, obj |-> NewTarget(t)]),
     ok |-> ~Exists(reg, t.name)]

\* One turn of addTarget's map callback: [reg, ok].
AddOne(reg, t) ==
    IF Exists(reg, t.name)
    THEN [reg |-> reg, ok |-> FALSE]
    ELSE [reg |-> Append(reg, [key |-> t.name, obj |-> NewTarget(t)]), ok |-> TRUE]

\* targets.map(...) then results.every(...): [reg, ok].
RECURSIVE AddAll(_, _)
AddAll(reg, ts) ==
    IF ts = <<>> THEN [reg |-> reg, ok |-> TRUE]
    ELSE LET first == AddOne(reg, Head(ts))
             rest == AddAll(first.reg, Tail(ts))
         IN [reg |-> rest.reg, ok |-> first.ok /\ rest.ok]

\* MergeHeaders as it would be if the update replaced the headers.
MergeHeadersReplacing(old, upd) == upd

\* { ...old, ...upd }
MergeHeaders(old, upd) ==
    [k \in HeaderKeys |-> IF upd[k] # Absent THEN upd[k] ELSE old[k]]

\* ApplyUpdate as it would be if supplied events were appended to the old ones.
ApplyUpdateAppending(obj, update) ==
    [name |-> obj.name,
     url |-> IF update.url # Undefined THEN update.url ELSE obj.url,
     headers |-> IF update.headers # None
                 THEN [k \in HeaderKeys |->
                          IF update.headers[1][k] # Absent
                          THEN update.headers[1][k] ELSE obj.headers[k]]
                 ELSE obj.headers,
     events |-> IF update.events # None THEN obj.events \o update.events[1]
                ELSE obj.events]

\* The three conditional assignments of updateTarget on a stored target.
ApplyUpdate(obj, update) ==
    [name |-> obj.name,
     url |-> IF update.url # Undefined THEN update.url ELSE obj.url,
     headers |-> IF update.headers # None
                 THEN MergeHeaders(obj.headers, update.headers[1])
                 ELSE obj.headers,
     events |-> IF update.events # None THEN update.events[1] ELSE obj.events]

\* The same assignments on the object found under an inherited key, which has
\* none of the three properties until an update sets it.
ApplyUpdateInherited(obj, update) ==
    [url |-> IF update.url # Undefined THEN update.url ELSE obj.url,
     headers |-> IF update.headers # None
                 THEN Some(MergeHeaders(OrElse(obj.headers, NoHeaders), update.headers[1]))
                 ELSE obj.headers,
     events |-> IF update.events # None THEN update.events ELSE obj.events]

\* PushMissing as it would be without the includes test.
PushAll(events, toAdd) == events \o toAdd

\* eventsArray.forEach: push each event that target.events does not include.
RECURSIVE PushMissing(_, _)
PushMissing(events, toAdd) ==
    IF toAdd = <<>> THEN events
    ELSE PushMissing(IF Includes(events, Head(toAdd)) THEN events
                     ELSE Append(events, Head(toAdd)),
                     Tail(toAdd))

\* Delete as it would be if removeTarget left the key in place.
DeleteNothing(reg, name) == reg

\* delete this.targets[name]
Delete(reg, name) == SelectSeq(reg, LAMBDA e : e.key # name)

Put(reg, name, obj) == [reg EXCEPT ![IndexOf(reg, name)].obj = obj]

----------------------------------------------------------------------------
\* JSON.  A text is a sequence of tokens: an object text is the token "{", its
\* members [key, value] in order, and the token "}"; a value text is
\* [string |-> s] for the quoted string s, or the token "null".

Token(t) == [token |-> t]

Null == "null"
\* A number JSON has no text for.
NaN == "NaN"

\* The text of a value inside an object: NaN is written as null.
JsonOf(v) == IF v \in {NaN, Null} THEN Token("null") ELSE [string |-> v]

\* A property whose value is undefined is left out of the text.
Member(key, v) == IF v = Undefined THEN <<>> ELSE <<[key |-> key, value |-> JsonOf(v)]>>

\* JSON.stringify({ eventName, data })
Stringify(obj) ==
    <<Token("{")>> \o Member("eventName", obj.eventName) \o Member("data", obj.data)
        \o <<Token("}")>>

IsObjectText(text) ==
    /\ Len(text) >= 2
    /\ text[1] = Token("{") /\ text[Len(text)] = Token("}")
    /\ \A i \in 2..(Len(text) - 1) : DOMAIN text[i] = {"key", "value"}

ValueOf(json) == IF json = Token("null") THEN Null ELSE json.string

\* obj[key] of a parsed object text: the last member with that key.
Property(text, key) ==
    LET at == {i \in 2..(Len(text) - 1) : text[i].key = key}
    IN IF at = {} THEN Undefined
       ELSE ValueOf(text[CHOOSE i \in at : \A j \in at : j <= i].value)

\* JSON.parse(text) as far as eventName and data are concerned: an object, null,
\* or a SyntaxError thrown.
Parse(text) ==
    IF IsObjectText(text)
    THEN [kind |-> "object", eventName |-> Property(text, "eventName"),
          data |-> Property(text, "data")]
    ELSE IF text = <<Token("null")>> THEN [kind |-> "null"]
    ELSE [kind |-> "SyntaxError"]

----------------------------------------------------------------------------
\* Inputs.

Data == {"d1"}
Handlers == {"hOk", "hThrow"}

\* An emit call that has not been made.
Idle ==
    [pc |-> "idle", eventName |-> Undefined, data |-> Undefined,
     targets |-> <<>>, locals |-> <<>>, i |-> 1, requests |-> <<>>,
     result |-> [success |-> TRUE, errors |-> <<>>],
     attempts |-> <<>>, ehCalls |-> 0, detached |-> {}]

\* A request the middleware has not been given.
NoRequest ==
    [pc |-> "idle", method |-> Undefined, next |-> FALSE, read |-> "none",
     stream |-> <<>>, arrived |-> <<>>, body |-> <<>>, handed |-> None, outcome |-> Undefined,
     statusCode |-> Undefined, ended |-> <<>>, nextCalls |-> <<>>,
     returned |-> "no"]

\* No deferred delivery has been made.
NoDelivery ==
    [eventName |-> Undefined, data |-> Undefined, called |-> <<>>, threw |-> FALSE,
     reported |-> None, outcome |-> "none"]

Bool(b) == IF b THEN "true" ELSE "false"

\* The record of a call: its arguments, the target stored under `name` when it
\* was made (None or Some(target)) and what it returned.
Call(op, name, arg, before, ret) ==
    [op |-> op, name |-> name, arg |-> arg, before |-> before, ret |-> ret]

Found(reg, name) == IF name \in Keys(reg) THEN Some(Get(reg, name)) ELSE None

InitInherited == [url |-> Undefined, headers |-> None, events |-> None]

Init ==
    /\ targets = <<>>
    /\ inherited = InitInherited
    /\ listeners = [e \in EventNames |-> <<>>]
    /\ errorHandler \in {"returns", "mayThrow"}
    /\ emits = [e \in 1..MaxEmits |-> Idle]
    /\ running = 0
    /\ last = Call("new", Undefined, <<>>, None, "none")
    /\ ticks = <<>>
    /\ inbound = NoDelivery
    /\ reqs = [r \in 1..MaxRequests |-> NoRequest]

----------------------------------------------------------------------------
\* Registry operations.

\* addTarget(target | target[]); a single target is the list of one.
AddTarget(ts) ==
    /\ running = 0
    /\ LET r == AddAll(targets, ts)
       IN /\ targets' = r.reg
          /\ last' = Call("addTarget", Undefined, ts, None, Bool(r.ok))
    /\ UNCHANGED <<inherited, listeners, errorHandler, reqs, ticks, inbound, emits, running>>

UpdateTarget(name, update) ==
    /\ running = 0
    /\ IF ~Exists(targets, name)
       THEN /\ last' = Call("updateTarget", name, update, Found(targets, name), "false")
            /\ UNCHANGED <<targets, inherited>>
       ELSE /\ IF name \in Keys(targets)
               THEN /\ targets' = Put(targets, name, ApplyUpdate(Get(targets, name), update))
                    /\ UNCHANGED inherited
               ELSE /\ inherited' = ApplyUpdateInherited(inherited, update)
                    /\ UNCHANGED targets
            /\ last' = Call("updateTarget", name, update, Found(targets, name), "true")
    /\ UNCHANGED <<listeners, errorHandler, reqs, ticks, inbound, emits, running>>

RemoveTarget(name) ==
    /\ running = 0
    /\ IF ~Exists(targets, name)
       THEN /\ last' = Call("removeTarget", name, <<>>, Found(targets, name), "false")
            /\ UNCHANGED targets
       ELSE /\ targets' = Delete(targets, name)
            /\ last' = Call("removeTarget", name, <<>>, Found(targets, name), "true")
    /\ UNCHANGED <<inherited, listeners, errorHandler, reqs, ticks, inbound, emits, running>>

\* addEventToTarget(name, events); a single event name is the list of one.
AddEventToTarget(name, events) ==
    /\ running = 0
    /\ IF ~Exists(targets, name)
       THEN /\ last' = Call("addEventToTarget", name, events, Found(targets, name), "false")
            /\ UNCHANGED <<targets, inherited>>
       ELSE IF name \in Keys(targets)
       THEN /\ targets' = Put(targets, name,
                              [Get(targets, name) EXCEPT
                                  !.events = PushMissing(@, events)])
            /\ last' = Call("addEventToTarget", name, events, Found(targets, name), "true")
            /\ UNCHANGED inherited
       ELSE IF inherited.events = None
       THEN \* target.events is undefined: target.events.includes throws a TypeError
            /\ last' = Call("addEventToTarget", name, events, Found(targets, name), "throws")
            /\ UNCHANGED <<targets, inherited>>
       ELSE /\ inherited' = [inherited EXCEPT
                                !.events = Some(PushMissing(@[1], events))]
            /\ last' = Call("addEventToTarget", name, events, Found(targets, name), "true")
            /\ UNCHANGED targets
    /\ UNCHANGED <<listeners, errorHandler, reqs, ticks, inbound, emits, running>>

----------------------------------------------------------------------------
\* The local notifier (this.emitter, a node:events EventEmitter).  The event
\* name "error", which EventEmitter treats specially, is not among EventNames.

\* on(eventName, handler): addListener appends.
On(e, h) ==
    /\ running = 0
    /\ Len(listeners[e]) < MaxHandlers
    /\ listeners' = [listeners EXCEPT ![e] = Append(@, [h |-> h, once |-> FALSE])]
    /\ last' = Call("on", Undefined, <<e, h>>, None, "this")
    /\ UNCHANGED <<targets, inherited, errorHandler, reqs, ticks, inbound, emits, running>>

\* once(eventName, handler): appends a wrapper that removes itself when called.
Once(e, h) ==
    /\ running = 0
    /\ Len(listeners[e]) < MaxHandlers
    /\ listeners' = [listeners EXCEPT ![e] = Append(@, [h |-> h, once |-> TRUE])]
    /\ last' = Call("once", Undefined, <<e, h>>, None, "this")
    /\ UNCHANGED <<targets, inherited, errorHandler, reqs, ticks, inbound, emits, running>>

\* removeListener: removes the most recently added listener that is h or wraps h.
RemoveLast(ls, h) ==
    IF \E i \in 1..Len(ls) : ls[i].h = h
    THEN LET i == CHOOSE i \in 1..Len(ls) :
                      ls[i].h = h /\ \A j \in (i + 1)..Len(ls) : ls[j].h # h
         IN SubSeq(ls, 1, i - 1) \o SubSeq(ls, i + 1, Len(ls))
    ELSE ls

\* off(eventName, handler)
Off(e, h) ==
    /\ running = 0
    /\ listeners' = [listeners EXCEPT ![e] = RemoveLast(@, h)]
    /\ last' = Call("off", Undefined, <<e, h>>, None, "this")
    /\ UNCHANGED <<targets, inherited, errorHandler, reqs, ticks, inbound, emits, running>>

\* What a handler does when called.
Throws(h) == h = "hThrow"

\* Handlers that call back into the instance: one registry call each, on "a".
CallingHandlers == {"hUpdate", "hRemove", "hAdd"}

CalledUpdate == [url |-> "http://a", headers |-> None, events |-> None]

CalledTarget == [name |-> "a", url |-> "http://a", headers |-> None, events |-> Some(<<"x">>)]

\* HandlerCall as it would be if emit read the registry anew at every turn: a
\* target that a handler removes leaves the array of targets too, and one that
\* a handler adds joins it.
HandlerCallLive(h, st) ==
    CASE h = "hUpdate" ->
            IF "a" \in Keys(st.reg)
            THEN LET obj == ApplyUpdate(Get(st.reg, "a"), CalledUpdate)
                 IN [st EXCEPT
                       !.reg = Put(@, "a", obj),
                       !.snap = [i \in 1..Len(@) |-> IF @[i].name = "a" THEN obj ELSE @[i]]]
            ELSE st
      [] h = "hRemove" ->
            IF "a" \in Keys(st.reg)
            THEN [st EXCEPT !.reg = Delete(@, "a"),
                            !.snap = SelectSeq(@, LAMBDA o : o.name # "a")]
            ELSE st
      [] h = "hAdd" ->
            IF "a" \in Keys(st.reg) THEN st
            ELSE [st EXCEPT !.reg = AddOne(@, CalledTarget).reg,
                            !.snap = Append(@, NewTarget(CalledTarget))]
      [] OTHER -> st

\* The registry call of one handler, made while an emit call is delivering.
\* st is [reg, snap, detached]: the registry, the array of targets that emit
\* resolved, and the names in it whose object the registry no longer holds.  The
\* array holds the registry's own objects, so updateTarget, which assigns to the
\* stored object, shows through it until removeTarget unlinks the object.
HandlerCall(h, st) ==
    CASE h = "hUpdate" ->
            IF "a" \in Keys(st.reg)
            THEN LET obj == ApplyUpdate(Get(st.reg, "a"), CalledUpdate)
                 IN [st EXCEPT
                       !.reg = Put(@, "a", obj),
                       !.snap = [i \in 1..Len(@) |->
                                    IF @[i].name = "a" /\ "a" \notin st.detached
                                    THEN obj ELSE @[i]]]
            ELSE st
      [] h = "hRemove" ->
            IF "a" \in Keys(st.reg)
            THEN [st EXCEPT !.reg = Delete(@, "a"), !.detached = @ \cup {"a"}]
            ELSE st
      [] h = "hAdd" -> [st EXCEPT !.reg = AddOne(@, CalledTarget).reg]
      [] OTHER -> st

\* The registry calls of the handlers one publish called, in the order called.
RECURSIVE RunCalls(_, _)
RunCalls(called, st) ==
    IF called = <<>> THEN st
    ELSE RunCalls(Tail(called), HandlerCall(Head(called), st))

\* this.emitter.emit(eventName, data): the listeners are called in the order they
\* were added, a once wrapper is removed before its handler runs, and the first
\* handler that throws ends the call.  [left, called, threw]
RECURSIVE Publish(_)
Publish(ls) ==
    IF ls = <<>> THEN [left |-> <<>>, called |-> <<>>, threw |-> FALSE]
    ELSE LET l == Head(ls)
             keep == IF l.once THEN <<>> ELSE <<l>>
         IN IF Throws(l.h)
            THEN [left |-> keep \o Tail(ls), called |-> <<l.h>>, threw |-> TRUE]
            ELSE LET r == Publish(Tail(ls))
                 IN [left |-> keep \o r.left, called |-> <<l.h>> \o r.called,
                     threw |-> r.threw]

----------------------------------------------------------------------------
\* emit(eventName, data).  The call runs synchronously up to the await of
\* Promise.allSettled: target resolution, the local deliveries and the issue of
\* every request.  `running` names the call in that part; nothing else runs then.

\* Matches as it would be without the wildcard.
MatchesListed(obj, eventName) == Includes(obj.events, eventName)

\* Object.values(this.targets).filter(events.includes(eventName) || events.includes('*'))
Matches(obj, eventName) ==
    Includes(obj.events, eventName) \/ Includes(obj.events, Wildcard)

\* ResolveTargets as it would be without the filter.
ResolveAll(reg, eventName) == [i \in 1..Len(reg) |-> reg[i].obj]

ResolveTargets(reg, eventName) ==
    LET objs == [i \in 1..Len(reg) |-> reg[i].obj]
    IN SelectSeq(objs, LAMBDA o : Matches(o, eventName))

\* IsLocal as it would be if a url did not keep a target from local delivery.
IsLocalAlways(obj) == TRUE

\* !target.url
IsLocal(obj) == obj.url = Undefined \/ obj.url = ""

\* LocalTargets as it would be if the local targets were taken last to first.
LocalTargetsReversed(ts) ==
    LET ls == SelectSeq(ts, IsLocal)
    IN [i \in 1..Len(ls) |-> ls[Len(ls) + 1 - i]]

LocalTargets(ts) == SelectSeq(ts, IsLocal)

ExternalTargets(ts) == SelectSeq(ts, LAMBDA o : ~IsLocal(o))

MakeError(targetName, eventName, error) ==
    [target |-> targetName, event |-> eventName, error |-> error]

\* What one invocation of this.options.errorHandler may do.
ErrorHandlerOutcomes ==
    IF errorHandler = "mayThrow" THEN {"returns", "throws"} ELSE {"returns"}

\* Lines 163-176 and the filter of line 180.
EmitStart(e, eventName, data) ==
    /\ running = 0
    /\ emits[e].pc \in {"idle", "resolved", "rejected"}
    /\ LET ts == ResolveTargets(targets, eventName)
       IN emits' = [emits EXCEPT ![e] =
              [Idle EXCEPT !.pc = "local", !.eventName = eventName, !.data = data,
                           !.targets = ts, !.locals = LocalTargets(ts)]]
    /\ running' = e
    /\ last' = Call("emit", Undefined, <<eventName, data>>, None, "promise")
    /\ UNCHANGED <<targets, inherited, listeners, errorHandler, reqs, ticks, inbound>>

\* One turn of the forEach of lines 181-198.
EmitLocal(e) ==
    /\ running = e
    /\ emits[e].pc = "local"
    /\ emits[e].i <= Len(emits[e].locals)
    /\ LET em == emits[e]
           target == em.locals[em.i]
           p == Publish(listeners[em.eventName])
           attempt == [kind |-> "local", target |-> target.name,
                       called |-> p.called, threw |-> p.threw]
           after == RunCalls(p.called, [reg |-> targets, snap |-> em.targets,
                                        detached |-> em.detached])
           seen == [em EXCEPT !.targets = after.snap, !.detached = after.detached]
       IN /\ listeners' = [listeners EXCEPT ![em.eventName] = p.left]
          /\ targets' = after.reg
          /\ IF ~p.threw
             THEN /\ emits' = [emits EXCEPT ![e] =
                         [seen EXCEPT !.i = @ + 1, !.attempts = Append(@, attempt)]]
                  /\ UNCHANGED running
             ELSE \E o \in ErrorHandlerOutcomes :
                    LET pushed == [seen EXCEPT
                            !.attempts = Append(@, attempt),
                            !.result.errors =
                                Append(@, MakeError(target.name, em.eventName, "handler")),
                            !.ehCalls = @ + 1]
                    IN IF o = "throws"
                       THEN \* the error leaves the forEach and the async function
                            /\ emits' = [emits EXCEPT ![e] = [pushed EXCEPT !.pc = "rejected"]]
                            /\ running' = 0
                       ELSE /\ emits' = [emits EXCEPT ![e] =
                                   [pushed EXCEPT !.result.success = FALSE, !.i = @ + 1]]
                            /\ UNCHANGED running
    /\ UNCHANGED <<inherited, errorHandler, reqs, ticks, inbound, last>>

\* RequestHeaders as it would be if the target's headers could not replace the
\* content type.
RequestHeadersJson(obj) ==
    MergeHeaders(obj.headers, [NoHeaders EXCEPT !["Content-Type"] = "application/json"])

\* The headers of the request: { 'Content-Type': 'application/json', ...target.headers }
RequestHeaders(obj) ==
    MergeHeaders([NoHeaders EXCEPT !["Content-Type"] = "application/json"], obj.headers)

\* The fetch call of lines 207-217.
Post(obj, eventName, data) ==
    [kind |-> "post", target |-> obj.name, url |-> obj.url,
     headers |-> RequestHeaders(obj),
     body |-> Stringify([eventName |-> eventName, data |-> data])]

\* LocalDone as it would be if the requests did not wait for the local deliveries.
LocalSkipped(em) == TRUE

\* The forEach of lines 181-198 has run through the local targets.
LocalDone(em) == em.i > Len(em.locals)

\* Requests as it would be if each fetch were awaited before the next is made.
RequestsInTurn(ext) ==
    [k \in 1..Len(ext) |->
        [target |-> ext[k].name, state |-> IF k = 1 THEN "inflight" ELSE "waiting"]]

\* externalTargets.map: each callback runs up to its await of fetch, so every
\* request is in flight when map returns.
Requests(ext) ==
    [k \in 1..Len(ext) |-> [target |-> ext[k].name, state |-> "inflight"]]

\* Lines 201-204 after the last local delivery: every request is issued, or,
\* with no external target, the result is returned.
EmitIssue(e) ==
    /\ running = e
    /\ emits[e].pc = "local"
    /\ LocalDone(emits[e])
    /\ LET em == emits[e]
           ext == ExternalTargets(em.targets)
       IN emits' = [emits EXCEPT ![e] =
              IF ext = <<>>
              THEN [em EXCEPT !.pc = "resolved"]
              ELSE [em EXCEPT
                      !.pc = "await",
                      !.requests = Requests(ext),
                      !.attempts = @ \o [k \in 1..Len(ext) |->
                                            Post(ext[k], em.eventName, em.data)]]]
    /\ running' = 0
    /\ UNCHANGED <<targets, inherited, listeners, errorHandler, reqs, ticks, inbound, last>>

\* ErrorReturned as it would be if a new entry were put before the others.
ErrorInFront(res, target, eventName, error) ==
    [success |-> FALSE,
     errors |-> <<MakeError(target, eventName, error)>> \o res.errors]

\* result.errors.push(...); result.success = false
ErrorReturned(res, target, eventName, error) ==
    [success |-> FALSE,
     errors |-> Append(res.errors, MakeError(target, eventName, error))]

ErrorPushed(res, target, eventName, error) ==
    [res EXCEPT !.errors = Append(@, MakeError(target, eventName, error))]

\* The continuation of one request (lines 219-239) for each way the fetch can
\* end and each thing the error handler can do: [result, ehCalls], the result
\* after it and the number of error handler invocations.
Settlements(res, target, eventName, outcome) ==
    CASE outcome = "ok" -> {[result |-> res, ehCalls |-> 0]}
      [] outcome = "transport" ->
            \* fetch rejects: the catch block
            {IF o = "returns"
             THEN [result |-> ErrorReturned(res, target, eventName, "transport"), ehCalls |-> 1]
             ELSE [result |-> ErrorPushed(res, target, eventName, "transport"), ehCalls |-> 1]
             : o \in ErrorHandlerOutcomes}
      [] outcome = "http" ->
            \* !response.ok; an error handler that throws there lands in the catch block
            {IF o[1] = "returns"
             THEN [result |-> ErrorReturned(res, target, eventName, "http"), ehCalls |-> 1]
             ELSE LET again == ErrorPushed(res, target, eventName, "http")
                  IN IF o[2] = "returns"
                     THEN [result |-> ErrorReturned(again, target, eventName, "errorHandler"),
                           ehCalls |-> 2]
                     ELSE [result |-> ErrorPushed(again, target, eventName, "errorHandler"),
                           ehCalls |-> 2]
             : o \in ErrorHandlerOutcomes \X ErrorHandlerOutcomes}

FetchOutcomes == {"ok", "http", "transport"}

\* FetchSettle as it would be if the instance kept one result for all its calls.
FetchSettleShared(e, k, outcome) ==
    /\ running = 0
    /\ emits[e].pc = "await"
    /\ k \in 1..Len(emits[e].requests)
    /\ emits[e].requests[k].state = "inflight"
    /\ LET em == emits[e]
       IN \E s \in Settlements(emits[1].result, em.requests[k].target, em.eventName, outcome) :
            emits' = [emits EXCEPT ![e].requests[k].state = outcome,
                                   ![e].ehCalls = @ + s.ehCalls,
                                   ![1].result = s.result]
    /\ UNCHANGED <<targets, inherited, listeners, errorHandler, reqs, ticks, inbound, running, last>>

\* One request completes and its continuation runs.
FetchSettle(e, k, outcome) ==
    /\ running = 0
    /\ emits[e].pc = "await"
    /\ k \in 1..Len(emits[e].requests)
    /\ emits[e].requests[k].state = "inflight"
    /\ LET em == emits[e]
       IN \E s \in Settlements(em.result, em.requests[k].target, em.eventName, outcome) :
            emits' = [emits EXCEPT ![e] =
                [em EXCEPT !.requests[k].state = outcome,
                           !.result = s.result,
                           !.ehCalls = @ + s.ehCalls]]
    /\ UNCHANGED <<targets, inherited, listeners, errorHandler, reqs, ticks, inbound, running, last>>

\* AllSettled as it would be if the first settled promise ended the wait.
AnySettled(em) == \E k \in 1..Len(em.requests) : em.requests[k].state # "inflight"

\* Every promise given to Promise.allSettled has settled.
AllSettled(em) == \A k \in 1..Len(em.requests) : em.requests[k].state # "inflight"

\* Promise.allSettled has every promise settled: return result.
EmitReturn(e) ==
    /\ running = 0
    /\ emits[e].pc = "await"
    /\ AllSettled(emits[e])
    /\ emits' = [emits EXCEPT ![e].pc = "resolved"]
    /\ UNCHANGED <<targets, inherited, listeners, errorHandler, reqs, ticks, inbound, running, last>>

----------------------------------------------------------------------------
\* handleIncomingEvent(body).  A body is a structured value or a text.

ObjectBody(v) == [form |-> "object", value |-> v]
TextBody(t) == [form |-> "text", text |-> t]

Envelope(eventName, data) == [kind |-> "object", eventName |-> eventName, data |-> data]

\* typeof body === 'string' ? JSON.parse(body) : body
Decode(body) == IF body.form = "text" THEN Parse(body.text) ELSE body.value

\* What one call of handleIncomingEvent does, o being what the error handler
\* does if it is called: [ret, schedule, reported].  Destructuring a decoded
\* object schedules the delivery and the call resolves.  JSON.parse throwing, or
\* destructuring null, lands in the outer catch block: the error handler is
\* called with 'parse_event' and the error is thrown again, so the call rejects
\* with it, or with what the error handler threw.
Incoming(body, o) ==
    LET decoded == Decode(body)
    IN IF decoded.kind = "object"
       THEN [ret |-> "resolved",
             schedule |-> <<[eventName |-> decoded.eventName, data |-> decoded.data]>>,
             reported |-> Undefined]
       ELSE [ret |-> IF o = "throws" THEN "errorHandlerError"
                     ELSE IF decoded.kind = "null" THEN "TypeError" ELSE "SyntaxError",
             schedule |-> <<>>,
             reported |-> "parse_event"]

\* HandleIncomingEvent as it would be if it published before it returned.
HandleIncomingEventAtOnce(body) ==
    /\ running = 0
    /\ \E o \in ErrorHandlerOutcomes :
        LET r == Incoming(body, o)
        IN IF r.schedule # <<>>
           THEN LET t == r.schedule[1]
                    ls == IF t.eventName \in EventNames THEN listeners[t.eventName] ELSE <<>>
                    p == Publish(ls)
                IN /\ Len(ticks) < MaxTicks
                   /\ listeners' = IF t.eventName \in EventNames
                                   THEN [listeners EXCEPT ![t.eventName] = p.left]
                                   ELSE listeners
                   /\ inbound' = [eventName |-> t.eventName, data |-> t.data,
                                  called |-> p.called, threw |-> p.threw,
                                  reported |-> IF p.threw THEN Some(t) ELSE None,
                                  outcome |-> IF p.threw THEN "reported" ELSE "done"]
                   /\ ticks' = ticks \o r.schedule
                   /\ last' = Call("handleIncomingEvent", r.reported, body, None, r.ret)
           ELSE /\ last' = Call("handleIncomingEvent", r.reported, body, None, r.ret)
                /\ UNCHANGED <<listeners, ticks, inbound>>
    /\ UNCHANGED <<targets, inherited, errorHandler, reqs, emits, running>>

\* handleIncomingEvent(body), lines 261-286.  `last.name` is the event name the
\* error handler was called with, if it was called.
HandleIncomingEvent(body) ==
    /\ running = 0
    /\ \E o \in ErrorHandlerOutcomes :
        LET r == Incoming(body, o)
        IN /\ Len(ticks) + Len(r.schedule) <= MaxTicks
           /\ ticks' = ticks \o r.schedule
           /\ last' = Call("handleIncomingEvent", r.reported, body, None, r.ret)
    /\ UNCHANGED <<targets, inherited, listeners, errorHandler, reqs, emits, running, inbound>>

\* Tick as it would be if the delivery were made only for a matching local
\* target of the registry.
TickForTargets ==
    /\ running = 0
    /\ ticks # <<>>
    /\ LET t == Head(ticks)
           matched == LocalTargets(ResolveTargets(targets, t.eventName)) # <<>>
           ls == IF t.eventName \in EventNames /\ matched
                 THEN listeners[t.eventName] ELSE <<>>
           p == Publish(ls)
       IN /\ listeners' = IF t.eventName \in EventNames /\ matched
                          THEN [listeners EXCEPT ![t.eventName] = p.left]
                          ELSE listeners
          /\ ticks' = Tail(ticks)
          /\ \E o \in (IF p.threw THEN ErrorHandlerOutcomes ELSE {"returns"}) :
                inbound' = [eventName |-> t.eventName, data |-> t.data,
                            called |-> p.called, threw |-> p.threw,
                            reported |-> IF p.threw THEN Some(t) ELSE None,
                            outcome |-> IF ~p.threw THEN "done"
                                        ELSE IF o = "returns" THEN "reported"
                                        ELSE "uncaught"]
    /\ UNCHANGED <<targets, inherited, errorHandler, reqs, emits, running, last>>

\* The callback given to process.nextTick (lines 266-277), run once the code
\* that called handleIncomingEvent has returned to the event loop.  A publish
\* that throws is reported to the error handler (`reported`: the event name and
\* data it is called with); if that throws too, nothing catches it ("uncaught").
\* An event name without listeners publishes to nobody.
Tick ==
    /\ running = 0
    /\ ticks # <<>>
    /\ LET t == Head(ticks)
           ls == IF t.eventName \in EventNames THEN listeners[t.eventName] ELSE <<>>
           p == Publish(ls)
           after == RunCalls(p.called, [reg |-> targets, snap |-> <<>>, detached |-> {}])
       IN /\ listeners' = IF t.eventName \in EventNames
                          THEN [listeners EXCEPT ![t.eventName] = p.left]
                          ELSE listeners
          /\ targets' = after.reg
          /\ ticks' = Tail(ticks)
          /\ \E o \in (IF p.threw THEN ErrorHandlerOutcomes ELSE {"returns"}) :
                inbound' = [eventName |-> t.eventName, data |-> t.data,
                            called |-> p.called, threw |-> p.threw,
                            reported |-> IF p.threw THEN Some(t) ELSE None,
                            outcome |-> IF ~p.threw THEN "done"
                                        ELSE IF o = "returns" THEN "reported"
                                        ELSE "uncaught"]
    /\ UNCHANGED <<inherited, errorHandler, reqs, emits, running, last>>

----------------------------------------------------------------------------
\* createMiddleware(): the function (req, res, next) it returns.  A request
\* body that is streamed arrives as chunks of bytes.  A text is laid out in
\* units: a token whose string holds a character of two bytes is two units, cut
\* inside that character, any other token is one.

\* A string with a character of two bytes, and what is read when the two bytes
\* are decoded apart (two replacement characters).
Accented == "accented"
Garbled == "garbled"

IsMultiByte(t) == DOMAIN t = {"key", "value"} /\ t.value = [string |-> Accented]

RECURSIVE Units(_)
Units(text) ==
    IF text = <<>> THEN <<>>
    ELSE LET t == Head(text)
         IN (IF IsMultiByte(t)
             THEN <<[token |-> t, part |-> "first"], [token |-> t, part |-> "second"]>>
             ELSE <<[token |-> t, part |-> "whole"]>>) \o Units(Tail(text))

\* The ways a sequence of units arrives in at most n chunks, none empty.
RECURSIVE Splits(_, _)
Splits(u, n) ==
    IF u = <<>> THEN {<<>>}
    ELSE IF n <= 1 THEN {<<u>>}
    ELSE {<<u>>} \cup
         UNION {{<<SubSeq(u, 1, k)>> \o rest : rest \in Splits(SubSeq(u, k + 1, Len(u)), n - 1)}
                    : k \in 1..(Len(u) - 1)}

\* Bytes that hold every character whole, decoded.
Decoded(bytes) == [i \in 1..Len(bytes) |-> [unit |-> bytes[i], ok |-> TRUE]]

\* chunk.toString(): each chunk is decoded by itself, so the bytes of a
\* character the chunk holds only in part are not read as that character.
ChunkToString(chunk) ==
    [i \in 1..Len(chunk) |->
        [unit |-> chunk[i],
         ok |-> \/ chunk[i].part = "whole"
                \/ chunk[i].part = "first" /\ i < Len(chunk)
                \/ chunk[i].part = "second" /\ i > 1]]

Garble(t) == [key |-> t.key, value |-> [string |-> Garbled]]

\* The text that the decoded pieces, concatenated, make up.
RECURSIVE TextOf(_)
TextOf(ps) ==
    IF ps = <<>> THEN <<>>
    ELSE LET h == Head(ps)
         IN IF h.unit.part = "whole" THEN <<h.unit.token>> \o TextOf(Tail(ps))
            ELSE <<IF h.ok /\ ps[2].ok THEN h.unit.token ELSE Garble(h.unit.token)>>
                    \o TextOf(Tail(Tail(ps)))

\* if (req.body): null and the empty string are falsy.
Truthy(body) ==
    IF body.form = "text" THEN body.text # <<>> ELSE body.value.kind # "null"

\* JSON.stringify({ error: 'Invalid event format' })
ErrorText ==
    <<Token("{"), [key |-> "error", value |-> [string |-> "Invalid event format"]],
      Token("}")>>

\* The server calls the middleware and the listeners of a request from the
\* event loop: by then the callbacks of process.nextTick and the continuations
\* that the callback before left behind have run.
EventLoopTurn == ticks = <<>> /\ \A r \in 1..MaxRequests : reqs[r].pc # "awaiting"

\* await this.handleIncomingEvent(payload), up to the await: the request waits
\* for the continuation with what the call did.  The chunks and the text
\* gathered from them are not read again.
Handing(r, req, payload, o) ==
    LET i == Incoming(payload, o)
    IN /\ Len(ticks) + Len(i.schedule) <= MaxTicks
       /\ ticks' = ticks \o i.schedule
       /\ reqs' = [reqs EXCEPT ![r] =
              [req EXCEPT !.pc = "awaiting", !.handed = Some(payload), !.outcome = i.ret,
                          !.arrived = <<>>, !.body = <<>>]]

\* The middleware as it would be if it read the body of every request, whatever
\* its method.
MiddlewareEveryMethod(r, req) ==
    /\ running = 0
    /\ EventLoopTurn
    /\ reqs[r].pc = "idle"
    /\ LET given == [NoRequest EXCEPT !.method = req.method, !.next = req.next]
       IN IF req.body # None /\ Truthy(req.body[1])
          THEN \E o \in ErrorHandlerOutcomes :
                  Handing(r, [given EXCEPT !.read = "body"], req.body[1], o)
          ELSE /\ reqs' = [reqs EXCEPT ![r] =
                      [given EXCEPT !.pc = "streaming", !.read = "stream",
                                    !.stream = req.stream, !.returned = "resolved"]]
               /\ UNCHANGED ticks
    /\ UNCHANGED <<targets, inherited, listeners, errorHandler, emits, running, last,
                   inbound>>

\* The middleware is called with a request: lines 297-315 and 317 up to the
\* first await.  The continuation is assumed to return.
Middleware(r, req) ==
    /\ running = 0
    /\ EventLoopTurn
    /\ reqs[r].pc = "idle"
    /\ LET given == [NoRequest EXCEPT !.method = req.method, !.next = req.next]
       IN IF req.method # "POST"
          THEN /\ reqs' = [reqs EXCEPT ![r] =
                      [given EXCEPT !.pc = "done",
                                    !.nextCalls = IF req.next THEN <<"none">> ELSE <<>>,
                                    !.returned = "resolved"]]
               /\ UNCHANGED ticks
          ELSE IF req.body # None /\ Truthy(req.body[1])
          THEN \E o \in ErrorHandlerOutcomes :
                  Handing(r, [given EXCEPT !.read = "body"], req.body[1], o)
          ELSE /\ reqs' = [reqs EXCEPT ![r] =
                      [given EXCEPT !.pc = "streaming", !.read = "stream",
                                    !.stream = req.stream, !.returned = "resolved"]]
               /\ UNCHANGED ticks
    /\ UNCHANGED <<targets, inherited, listeners, errorHandler, emits, running, last,
                   inbound>>

\* req.on('data', ...), line 315: body += chunk.toString()
OnData(r) ==
    /\ running = 0
    /\ EventLoopTurn
    /\ reqs[r].pc = "streaming"
    /\ reqs[r].stream # <<>>
    /\ reqs' = [reqs EXCEPT ![r].body = @ \o ChunkToString(Head(reqs[r].stream)),
                            ![r].arrived = Append(@, Head(reqs[r].stream)),
                            ![r].stream = Tail(@)]
    /\ UNCHANGED <<targets, inherited, listeners, errorHandler, emits, running, last,
                   ticks, inbound>>

\* req.on('end', ...), line 317, up to the await: the end signal follows the
\* last chunk.
OnEnd(r) ==
    /\ running = 0
    /\ EventLoopTurn
    /\ reqs[r].pc = "streaming"
    /\ reqs[r].stream = <<>>
    /\ \E o \in ErrorHandlerOutcomes :
          Handing(r, reqs[r], TextBody(TextOf(reqs[r].body)), o)
    /\ UNCHANGED <<targets, inherited, listeners, errorHandler, emits, running, last,
                   inbound>>

\* Respond as it would be if the continuation were called without the error.
RespondWithoutError(r) ==
    /\ running = 0
    /\ reqs[r].pc = "awaiting"
    /\ reqs' = [reqs EXCEPT ![r] =
          IF reqs[r].outcome = "resolved"
          THEN [@ EXCEPT !.pc = "done", !.statusCode = 202, !.ended = Append(@, None),
                         !.returned = "resolved"]
          ELSE [@ EXCEPT !.pc = "done", !.statusCode = 400,
                         !.ended = Append(@, Some(ErrorText)),
                         !.nextCalls = IF reqs[r].next THEN Append(@, "none") ELSE @,
                         !.returned = "resolved"]]
    /\ UNCHANGED <<targets, inherited, listeners, errorHandler, emits, running, last,
                   ticks, inbound>>

\* Respond as it would be if the continuation were called after a success too.
RespondAndContinue(r) ==
    /\ running = 0
    /\ reqs[r].pc = "awaiting"
    /\ reqs' = [reqs EXCEPT ![r] =
          IF reqs[r].outcome = "resolved"
          THEN [@ EXCEPT !.pc = "done", !.statusCode = 202, !.ended = Append(@, None),
                         !.nextCalls = IF reqs[r].next THEN Append(@, "none") ELSE @,
                         !.returned = "resolved"]
          ELSE [@ EXCEPT !.pc = "done", !.statusCode = 400,
                         !.ended = Append(@, Some(ErrorText)),
                         !.nextCalls = IF reqs[r].next THEN Append(@, reqs[r].outcome) ELSE @,
                         !.returned = "resolved"]]
    /\ UNCHANGED <<targets, inherited, listeners, errorHandler, emits, running, last,
                   ticks, inbound>>

\* The code after the await (lines 306-311 and 320-325): 202 and an empty end,
\* or 400, the error text and the continuation called with the error.
Respond(r) ==
    /\ running = 0
    /\ reqs[r].pc = "awaiting"
    /\ reqs' = [reqs EXCEPT ![r] =
          IF reqs[r].outcome = "resolved"
          THEN [@ EXCEPT !.pc = "done", !.statusCode = 202, !.ended = Append(@, None),
                         !.returned = "resolved"]
          ELSE [@ EXCEPT !.pc = "done", !.statusCode = 400,
                         !.ended = Append(@, Some(ErrorText)),
                         !.nextCalls = IF reqs[r].next THEN Append(@, reqs[r].outcome) ELSE @,
                         !.returned = "resolved"]]
    /\ UNCHANGED <<targets, inherited, listeners, errorHandler, emits, running, last,
                   ticks, inbound>>

\* The server is done with a request.
Served(r) ==
    /\ running = 0
    /\ EventLoopTurn
    /\ reqs[r].pc = "done"
    /\ reqs' = [reqs EXCEPT ![r] = NoRequest]
    /\ UNCHANGED <<targets, inherited, listeners, errorHandler, emits, running, last,
                   ticks, inbound>>

----------------------------------------------------------------------------
\* The dispatcher: targets and handlers are registered and removed, and events
\* are emitted and followed to their result.  Here the configuration changes
\* between emit calls, not during one.

EmitNames == {"a", "b", "c"}

TargetInputs ==
    [name : EmitNames, url : {Undefined, "http://a"}, headers : {None},
     events : {Some(<<"x">>)}]

\* No emit call is in progress or holds a result the caller has not taken.
Quiet == \A e \in 1..MaxEmits : emits[e].pc = "idle"

\* The caller takes the result (or the rejection) of a finished emit call.
EmitObserved(e) ==
    /\ running = 0
    /\ emits[e].pc \in {"resolved", "rejected"}
    /\ emits' = [emits EXCEPT ![e] = Idle]
    /\ UNCHANGED <<targets, inherited, listeners, errorHandler, reqs, ticks, inbound, running, last>>

Next ==
    \/ Quiet /\ \E t \in TargetInputs : AddTarget(<<t>>)
    \/ Quiet /\ \E n \in EmitNames : RemoveTarget(n)
    \/ Quiet /\ \E h \in Handlers : On("x", h)
    \/ Quiet /\ \E h \in Handlers : Off("x", h)
    \/ \E e \in 1..MaxEmits, ev \in EventNames, d \in Data : EmitStart(e, ev, d)
    \/ \E e \in 1..MaxEmits : EmitLocal(e)
    \/ \E e \in 1..MaxEmits : EmitIssue(e)
    \/ \E e \in 1..MaxEmits, k \in 1..Cardinality(EmitNames), o \in FetchOutcomes :
          FetchSettle(e, k, o)
    \/ \E e \in 1..MaxEmits : EmitReturn(e)
    \/ \E e \in 1..MaxEmits : EmitObserved(e)

Spec == Init /\ [][Next]_vars

----------------------------------------------------------------------------
\* The registry on its own: every registry operation.  Target "a" is added with
\* headers and updated in every way; "b" stands for the rest of the registry,
\* and the inherited key for a name that is found without being registered.

Plain(name) == [name |-> name, url |-> Undefined, headers |-> None, events |-> None]

RegTargetInputs ==
    [name : {"a"},
     url : {Undefined, "http://a"},
     headers : {Some([k \in HeaderKeys |-> "v1"])},
     events : {None, Some(<<"x", "x">>)}]
    \cup {Plain(n) : n \in Names \ {"a"}}

\* Entries of a list passed to addTarget: two different targets named "a".
RegBatchInputs ==
    {[t EXCEPT !.events = Some(<<"x">>)] :
        t \in {t \in RegTargetInputs : t.events = None /\ t.name \in OwnNames}}

\* A list that names an inherited key after a name of its own.
RegInheritedBatch(n) ==
    <<[Plain("b") EXCEPT !.events = Some(<<"x">>)], [Plain(n) EXCEPT !.url = "http://a"]>>

RegUpdateInputs ==
    [url : {Undefined, "", "http://a"},
     headers : {None, Some(NoHeaders), Some([NoHeaders EXCEPT !["k"] = "v2"])},
     events : {None, Some(<<"y">>)}]

\* The update and the event list tried on an inherited key.
RegInheritedUpdate == [url |-> Undefined, headers |-> None, events |-> Some(<<"y">>)]

RegInheritedEvents == <<"y">>

RegEventInputs == SeqsUpTo(EventNames, MaxEvents) \ {<<>>}

InitRegistry == Init /\ errorHandler = "returns"

NextRegistry ==
    \/ \E t \in RegTargetInputs : AddTarget(<<t>>)
    \/ \E ts \in SeqsUpTo(RegBatchInputs, MaxBatch) : Len(ts) > 1 /\ AddTarget(ts)
    \/ \E n \in InheritedNames : AddTarget(RegInheritedBatch(n))
    \/ \E u \in RegUpdateInputs : UpdateTarget("a", u)
    \/ \E n \in Names \ {"a"} : UpdateTarget(n, RegInheritedUpdate)
    \/ \E n \in Names : RemoveTarget(n)
    \/ \E es \in RegEventInputs : AddEventToTarget("a", es)
    \/ \E n \in Names \ {"a"} : AddEventToTarget(n, RegInheritedEvents)

SpecRegistry == InitRegistry /\ [][NextRegistry]_vars

----------------------------------------------------------------------------
\* The dispatcher with a target that lists an event name beside the wildcard,
\* one that lists it twice, and one-time handlers.  "y" is an event name no
\* target lists.  The caller takes each result as soon as the call has finished.

DispatchNames == {"a", "b"}

DispatchTargets ==
    [name : {"a"}, url : {Undefined, "http://a"}, headers : {None},
     events : {Some(<<"x", "*">>)}]
    \cup [name : {"b"}, url : {Undefined, "http://b"}, headers : {None},
          events : {Some(<<"x", "x">>)}]

\* The handlers registered with once: one that returns.
DispatchOnce == {"hOk"}

\* The caller has taken the result of every emit call that has finished.
Taken == \A e \in 1..MaxEmits : emits[e].pc \notin {"resolved", "rejected"}

\* The emit calls in progress are the first ones of 1..MaxEmits.
InTurn(e) == \A f \in 1..(e - 1) : emits[f].pc # "idle"

NextDispatch ==
    \/ Quiet /\ \E t \in DispatchTargets : AddTarget(<<t>>)
    \/ Quiet /\ \E n \in DispatchNames : RemoveTarget(n)
    \/ Quiet /\ \E h \in Handlers : On("x", h)
    \/ Quiet /\ \E h \in DispatchOnce : Once("x", h)
    \/ Quiet /\ \E h \in Handlers : Off("x", h)
    \/ Taken /\ \E e \in 1..MaxEmits, ev \in EventNames, d \in Data :
          InTurn(e) /\ EmitStart(e, ev, d)
    \/ \E e \in 1..MaxEmits : EmitLocal(e)
    \/ \E e \in 1..MaxEmits : EmitIssue(e)
    \/ Taken /\ \E e \in 1..MaxEmits, k \in 1..Cardinality(DispatchNames),
                    o \in FetchOutcomes : FetchSettle(e, k, o)
    \/ Taken /\ \E e \in 1..MaxEmits : EmitReturn(e)
    \/ \E e \in 1..MaxEmits : EmitObserved(e)

SpecDispatch == Init /\ [][NextDispatch]_vars

----------------------------------------------------------------------------
\* Handlers that call back into the instance while emit is delivering: one
\* local target "a" and one remote target "b", both listening to "x".

CallingTargets ==
    {[name |-> "a", url |-> Undefined, headers |-> None, events |-> Some(<<"x">>)],
     [name |-> "b", url |-> "http://b", headers |-> None, events |-> Some(<<"x">>)]}

NextCalling ==
    \/ Quiet /\ \E t \in CallingTargets : AddTarget(<<t>>)
    \/ Quiet /\ \E n \in DispatchNames : RemoveTarget(n)
    \/ Quiet /\ \E h \in CallingHandlers \cup {"hOk"} : On("x", h)
    \/ Quiet /\ \E h \in CallingHandlers \cup {"hOk"} : Off("x", h)
    \/ \E e \in 1..MaxEmits, d \in Data : EmitStart(e, "x", d)
    \/ \E e \in 1..MaxEmits : EmitLocal(e)
    \/ \E e \in 1..MaxEmits : EmitIssue(e)
    \/ \E e \in 1..MaxEmits, k \in 1..Cardinality(DispatchNames), o \in FetchOutcomes :
          FetchSettle(e, k, o)
    \/ \E e \in 1..MaxEmits : EmitReturn(e)
    \/ \E e \in 1..MaxEmits : EmitObserved(e)

SpecCalling == Init /\ [][NextCalling]_vars

----------------------------------------------------------------------------
\* The registry is changed while an emit call is in progress: by the handlers
\* while it delivers, and by the program while its requests are in flight.  One
\* emit call is made at a time.

MovedUpdate ==
    [url |-> "http://moved",
     headers |-> Some([k \in HeaderKeys |-> IF k = "k" THEN "v2" ELSE Absent]),
     events |-> Some(<<"y">>)]

InFlightCalls ==
    {[op |-> "updateTarget", name |-> "b", arg |-> MovedUpdate],
     [op |-> "removeTarget", name |-> "b", arg |-> MovedUpdate],
     [op |-> "removeTarget", name |-> "a", arg |-> MovedUpdate],
     [op |-> "addTarget", name |-> "a", arg |-> MovedUpdate]}

\* One registry call c of the program, with st as for HandlerCall: updateTarget
\* assigns to the stored object, which the array of an emit call in progress
\* holds too; removeTarget unlinks the object; addTarget stores a new one.
ProgramCall(c, st) ==
    CASE c.op = "updateTarget" ->
            IF c.name \in Keys(st.reg)
            THEN LET obj == ApplyUpdate(Get(st.reg, c.name), c.arg)
                 IN [st EXCEPT
                       !.reg = Put(@, c.name, obj),
                       !.snap = [i \in 1..Len(@) |->
                                    IF @[i].name = c.name /\ c.name \notin st.detached
                                    THEN obj ELSE @[i]]]
            ELSE st
      [] c.op = "removeTarget" ->
            IF c.name \in Keys(st.reg)
            THEN [st EXCEPT !.reg = Delete(@, c.name), !.detached = @ \cup {c.name}]
            ELSE st
      [] OTHER -> [st EXCEPT !.reg = AddOne(@, CalledTarget).reg]

\* The program makes the registry call c while requests of an emit call are in
\* flight.
CallInFlight(c) ==
    /\ running = 0
    /\ \E e \in 1..MaxEmits : emits[e].pc = "await"
    /\ targets' = ProgramCall(c, [reg |-> targets, snap |-> <<>>, detached |-> {}]).reg
    /\ emits' = [e \in 1..MaxEmits |->
          IF emits[e].pc # "await" THEN emits[e]
          ELSE LET st == ProgramCall(c, [reg |-> targets, snap |-> emits[e].targets,
                                         detached |-> emits[e].detached])
               IN [emits[e] EXCEPT !.targets = st.snap, !.detached = st.detached]]
    /\ UNCHANGED <<inherited, listeners, errorHandler, reqs, ticks, inbound, running, last>>

SnapshotTargets ==
    <<[name |-> "a", url |-> Undefined, headers |-> None, events |-> Some(<<"x">>)],
      [name |-> "b", url |-> "http://b", headers |-> None, events |-> Some(<<"x">>)]>>

NextSnapshot ==
    \/ Quiet /\ targets = <<>> /\ AddTarget(SnapshotTargets)
    \/ Quiet /\ \E h \in CallingHandlers :
          (\A i \in 1..Len(listeners["x"]) : listeners["x"][i].h # h) /\ On("x", h)
    \/ Quiet /\ EmitStart(1, "x", "d1")
    \/ \E e \in 1..MaxEmits : EmitLocal(e)
    \/ \E e \in 1..MaxEmits : EmitIssue(e)
    \/ \E c \in InFlightCalls : CallInFlight(c)
    \/ \E e \in 1..MaxEmits, k \in 1..Cardinality(DispatchNames) :
          \E o \in {"ok", "transport"} : FetchSettle(e, k, o)
    \/ \E e \in 1..MaxEmits : EmitReturn(e)
    \/ \E e \in 1..MaxEmits : EmitObserved(e)

SpecSnapshot == Init /\ [][NextSnapshot]_vars

----------------------------------------------------------------------------
\* Overlapping calls: emit is called again, and the registry is changed, while
\* requests of an earlier emit call are in flight.  The first call emits "x",
\* matched by the remote target "a" (with headers of its own), the wildcard
\* remote target "b" and the local target "c"; the next emits "y", matched by "b".

OverlapTargets ==
    {[name |-> "a", url |-> "http://a",
      headers |-> Some([k \in HeaderKeys |-> IF k = "k" THEN "v1" ELSE "text/plain"]),
      events |-> Some(<<"x">>)],
     [name |-> "b", url |-> "http://b", headers |-> None, events |-> Some(<<"*">>)],
     [name |-> "c", url |-> Undefined, headers |-> None, events |-> Some(<<"x">>)]}

OverlapNames == {t.name : t \in OverlapTargets}

\* What the e-th call in progress emits.
OverlapEvent(e) == IF e = 1 THEN "x" ELSE "y"

OverlapData(e) == IF e = 1 THEN "d1" ELSE "d2"

InitOverlap ==
    /\ targets = <<>>
    /\ inherited = InitInherited
    /\ listeners = [e \in EventNames |-> <<>>]
    /\ errorHandler \in {"returns", "mayThrow"}
    /\ emits = [e \in 1..MaxOverlap |-> Idle]
    /\ running = 0
    /\ last = Call("new", Undefined, <<>>, None, "none")
    /\ ticks = <<>>
    /\ inbound = NoDelivery
    /\ reqs = [r \in 1..MaxRequests |-> NoRequest]

\* No emit call is in progress or holds a result the caller has not taken.
Fresh == \A e \in DOMAIN emits : emits[e].pc = "idle"

\* The caller has taken the result of every emit call that has finished.
OverlapTaken == \A e \in DOMAIN emits : emits[e].pc \notin {"resolved", "rejected"}

\* The e-th call is made while the calls before it are in progress.
OverlapInTurn(e) == \A f \in 1..(e - 1) : emits[f].pc # "idle"

\* The registry and the handler change between the emit calls.
NextOverlap ==
    \/ Fresh /\ \E t \in OverlapTargets : AddTarget(<<t>>)
    \/ Fresh /\ \E n \in OverlapNames : RemoveTarget(n)
    \/ Fresh /\ listeners["x"] = <<>> /\ \E h \in Handlers : On("x", h)
    \/ Fresh /\ \E h \in Handlers : Off("x", h)
    \/ OverlapTaken /\ \E e \in DOMAIN emits :
          OverlapInTurn(e) /\ EmitStart(e, OverlapEvent(e), OverlapData(e))
    \/ \E e \in DOMAIN emits : EmitLocal(e)
    \/ \E e \in DOMAIN emits : EmitIssue(e)
    \/ OverlapTaken /\ \E e \in DOMAIN emits, k \in 1..Cardinality(OverlapNames),
                           o \in FetchOutcomes : FetchSettle(e, k, o)
    \/ OverlapTaken /\ \E e \in DOMAIN emits : EmitReturn(e)
    \/ \E e \in DOMAIN emits : EmitObserved(e)

SpecOverlap == InitOverlap /\ [][NextOverlap]_vars

----------------------------------------------------------------------------
\* Overlapping calls that are carried on: the synchronous part of an emit call
\* runs to its end, a call whose requests have all completed returns, and the
\* caller takes each result (these two whenever the instance is idle again and
\* again, however many other calls are made).  Whether a request completes is
\* left open.  The local target is removed and added while calls are in progress.

NextLive ==
    \/ Fresh /\ \E t \in OverlapTargets : AddTarget(<<t>>)
    \/ ~Fresh /\ OverlapTaken
          /\ \E t \in OverlapTargets : t.name = "c" /\ AddTarget(<<t>>)
    \/ ~Fresh /\ OverlapTaken /\ RemoveTarget("c")
    \/ Fresh /\ listeners["x"] = <<>> /\ \E h \in Handlers : On("x", h)
    \/ OverlapTaken /\ \E e \in DOMAIN emits :
          OverlapInTurn(e) /\ EmitStart(e, OverlapEvent(e), OverlapData(e))
    \/ \E e \in DOMAIN emits : EmitLocal(e)
    \/ \E e \in DOMAIN emits : EmitIssue(e)
    \/ OverlapTaken /\ \E e \in DOMAIN emits, k \in 1..Cardinality(OverlapNames),
                           o \in FetchOutcomes : FetchSettle(e, k, o)
    \/ \E e \in DOMAIN emits : EmitReturn(e)
    \/ \E e \in DOMAIN emits : EmitObserved(e)

LiveFairness ==
    \A e \in 1..MaxOverlap :
        /\ WF_vars(EmitLocal(e))
        /\ WF_vars(EmitIssue(e))
        /\ SF_vars(EmitReturn(e))
        /\ SF_vars(EmitObserved(e))

SpecLive == InitOverlap /\ [][NextLive]_vars /\ LiveFairness

----------------------------------------------------------------------------
\* The dispatcher with two local and two remote targets, registered in any
\* order, and one emit call at a time.

OrderTargets ==
    {[name |-> "a", url |-> Undefined, headers |-> None, events |-> Some(<<"x">>)],
     [name |-> "b", url |-> "http://b", headers |-> None, events |-> Some(<<"x">>)],
     [name |-> "c", url |-> Undefined, headers |-> None, events |-> Some(<<"*">>)],
     [name |-> "d", url |-> "http://d", headers |-> None, events |-> Some(<<"x">>)]}

NextOrder ==
    \/ Quiet /\ \E t \in OrderTargets : AddTarget(<<t>>)
    \/ Quiet /\ \E h \in Handlers : On("x", h)
    \/ Quiet /\ \E e \in 1..MaxEmits, d \in Data : EmitStart(e, "x", d)
    \/ \E e \in 1..MaxEmits : EmitLocal(e)
    \/ \E e \in 1..MaxEmits : EmitIssue(e)
    \/ \E e \in 1..MaxEmits, k \in 1..Cardinality(OrderTargets), o \in FetchOutcomes :
          FetchSettle(e, k, o)
    \/ \E e \in 1..MaxEmits : EmitReturn(e)
    \/ \E e \in 1..MaxEmits : EmitObserved(e)

SpecOrder == Init /\ [][NextOrder]_vars

----------------------------------------------------------------------------
\* Inbound events: envelopes arrive as objects and as texts while handlers are
\* registered and removed and events are emitted to two local targets.  The
\* caller awaits each emit call before it does anything else.

InboundTargets ==
    <<[name |-> "a", url |-> Undefined, headers |-> None, events |-> Some(<<"x">>)],
      [name |-> "b", url |-> Undefined, headers |-> None, events |-> Some(<<"x">>)]>>

\* The envelopes that arrive: with and without an event name, with data that
\* JSON can and cannot write.
InboundEnvelopes == {Envelope("x", "d1"), Envelope("x", NaN), Envelope(Undefined, "d1")}

\* The well-formed ones: an event name and data that JSON can write.
WellFormed == {v \in InboundEnvelopes : v.eventName \in EventNames /\ v.data # NaN}

\* Texts that are not JSON: one that is no JSON token, and an object text cut
\* short.
NotJson == {<<Token("garbage")>>, <<Token("{")>>}

InboundBodies ==
    {ObjectBody(v) : v \in InboundEnvelopes}
    \cup {TextBody(Stringify(v)) : v \in InboundEnvelopes}
    \cup {ObjectBody([kind |-> "null"]), TextBody(<<Token("null")>>)}
    \cup {TextBody(t) : t \in NotJson}

NextInbound ==
    \/ Quiet /\ AddTarget(InboundTargets)
    \/ Quiet /\ \E h \in Handlers : On("x", h)
    \/ Quiet /\ \E h \in DispatchOnce : Once("x", h)
    \/ Quiet /\ \E h \in Handlers : Off("x", h)
    \/ Quiet /\ \E b \in InboundBodies : HandleIncomingEvent(b)
    \/ Tick
    \/ Quiet /\ ticks = <<>> /\ \E e \in 1..MaxEmits, d \in Data : EmitStart(e, "x", d)
    \/ \E e \in 1..MaxEmits : EmitLocal(e)
    \/ \E e \in 1..MaxEmits : EmitIssue(e)
    \/ \E e \in 1..MaxEmits : EmitObserved(e)

SpecInbound == Init /\ [][NextInbound]_vars

----------------------------------------------------------------------------
\* All the operations together: the registry is changed between emit calls,
\* events are emitted to local and remote targets, and envelopes arrive, also
\* while requests are in flight.

MixedTargets ==
    {[name |-> "a", url |-> Undefined, headers |-> None, events |-> Some(<<"x">>)],
     [name |-> "a", url |-> "http://a", headers |-> None, events |-> Some(<<"x">>)],
     [name |-> "b", url |-> "http://b", headers |-> None, events |-> Some(<<"*">>)]}

MixedNames == {t.name : t \in MixedTargets}

MixedUpdate == [url |-> "http://a", headers |-> None, events |-> Some(<<"y">>)]

MixedBodies ==
    {ObjectBody(Envelope("x", "d1")), TextBody(Stringify(Envelope("x", "d1"))),
     TextBody(<<Token("garbage")>>)}

NextMixed ==
    \/ Quiet /\ \E t \in MixedTargets : AddTarget(<<t>>)
    \/ Quiet /\ UpdateTarget("a", MixedUpdate)
    \/ Quiet /\ \E n \in MixedNames : RemoveTarget(n)
    \/ Quiet /\ AddEventToTarget("b", <<"x">>)
    \/ Quiet /\ listeners["x"] = <<>> /\ \E h \in Handlers : On("x", h)
    \/ Quiet /\ \E e \in 1..MaxEmits, d \in Data : InTurn(e) /\ EmitStart(e, "x", d)
    \/ \E e \in 1..MaxEmits : EmitLocal(e)
    \/ \E e \in 1..MaxEmits : EmitIssue(e)
    \/ Taken /\ \E e \in 1..MaxEmits, k \in 1..Cardinality(MixedNames),
                    o \in FetchOutcomes : FetchSettle(e, k, o)
    \/ Taken /\ \E e \in 1..MaxEmits : EmitReturn(e)
    \/ \E e \in 1..MaxEmits : EmitObserved(e)
    \/ Taken /\ \E b \in MixedBodies : HandleIncomingEvent(b)
    \/ Tick

SpecMixed == Init /\ [][NextMixed]_vars

----------------------------------------------------------------------------
\* The same with lists of targets, which may repeat a name, and with the names
\* that Object.prototype defines.

\* Lists passed to addTarget: one that repeats a name, and one whose second
\* name may be registered already.
WholeBatches ==
    {<<[name |-> "a", url |-> Undefined, headers |-> None, events |-> Some(<<"x">>)],
       [name |-> "a", url |-> "http://a", headers |-> None, events |-> Some(<<"x">>)]>>,
     <<[name |-> "b", url |-> "http://b", headers |-> None, events |-> Some(<<"*">>)],
       [name |-> "a", url |-> Undefined, headers |-> None, events |-> Some(<<"x">>)]>>}

NextWhole ==
    \/ NextMixed
    \/ Quiet /\ \E ts \in WholeBatches : AddTarget(ts)
    \/ Quiet /\ \E n \in InheritedNames : AddTarget(RegInheritedBatch(n))
    \/ Quiet /\ \E n \in InheritedNames : UpdateTarget(n, RegInheritedUpdate)
    \/ Quiet /\ \E n \in InheritedNames : RemoveTarget(n)

SpecWhole == Init /\ [][NextWhole]_vars

----------------------------------------------------------------------------
\* The middleware: requests with and without a materialized body, with and
\* without a continuation, while handlers are registered and removed.

\* The payloads that are streamed: an envelope whose data holds a character of
\* two bytes, a text that is not JSON, and nothing.
StreamedTexts == {Stringify(Envelope("x", Accented)), <<Token("garbage")>>, <<>>}

Streams == UNION {Splits(Units(t), MaxChunks) : t \in StreamedTexts}

MaterializedBodies ==
    {ObjectBody(Envelope("x", "d1")), TextBody(<<Token("garbage")>>),
     ObjectBody([kind |-> "null"])}

MiddlewareRequests ==
    [method : {"GET"}, next : BOOLEAN, body : {None}, stream : {<<>>}]
    \cup [method : {"POST"}, next : BOOLEAN,
          body : {Some(b) : b \in MaterializedBodies}, stream : {<<>>}]
    \cup [method : {"POST"}, next : BOOLEAN, body : {None}, stream : Streams]

\* No request is in the hands of the middleware and no delivery waits.
Unserved == ticks = <<>> /\ \A r \in 1..MaxRequests : reqs[r].pc = "idle"

\* The r-th request arrives while the requests before it are being read, and
\* before the requests after it.
RequestInTurn(r) ==
    /\ \A q \in 1..(r - 1) : reqs[q].pc = "streaming"
    /\ \A q \in (r + 1)..MaxRequests : reqs[q].pc = "idle"

NextMiddleware ==
    \/ Unserved /\ listeners["x"] = <<>> /\ \E h \in Handlers : On("x", h)
    \/ \E r \in 1..MaxRequests, req \in MiddlewareRequests :
          RequestInTurn(r) /\ Middleware(r, req)
    \/ \E r \in 1..MaxRequests : OnData(r)
    \/ \E r \in 1..MaxRequests : OnEnd(r)
    \/ \E r \in 1..MaxRequests : Respond(r)
    \/ \E r \in 1..MaxRequests : Served(r)
    \/ Tick

SpecMiddleware == Init /\ [][NextMiddleware]_vars

\* An exception that nothing catches ends the process, unless the program
\* listens for it.
Alive == inbound.outcome # "uncaught"

\* The continuation of an await runs when the promise is settled, as long as
\* the process lives; nothing makes a request arrive, a chunk follow or a
\* stream end.
MiddlewareFairness == \A r \in 1..MaxRequests : WF_vars(Alive /\ Respond(r))

SpecMiddlewareLive == SpecMiddleware /\ MiddlewareFairness

----------------------------------------------------------------------------
\* Properties of emit.

EmitIds == 1..MaxEmits

Elems(s) == {s[i] : i \in 1..Len(s)}

\* The deliveries of an emit call that were local, and those that threw.
LocalAttempts(em) == {j \in 1..Len(em.attempts) : em.attempts[j].kind = "local"}

LocalFailures(em) == {j \in LocalAttempts(em) : em.attempts[j].threw}

\* The requests of an emit call that failed: non-2xx response or transport failure.
FailedRequests(em) ==
    {k \in 1..Len(em.requests) : em.requests[k].state \in {"http", "transport"}}

\* C1: when an emit in which no local delivery failed resolves, its result has
\* one error entry per failed request (M of the N requests), success is (M = 0),
\* and the error handler was invoked M times during the emit.
C1_RemoteFailuresCounted ==
    \A e \in EmitIds :
        LET em == emits[e]
            M == Cardinality(FailedRequests(em))
        IN (em.pc = "resolved" /\ LocalFailures(em) = {}) =>
              /\ Len(em.result.errors) = M
              /\ em.result.success = (M = 0)
              /\ em.ehCalls = M

\* C1 for an error handler that returns: the same statement, which holds.
C1_WhenErrorHandlerReturns ==
    errorHandler = "returns" => C1_RemoteFailuresCounted

\* C2: no emit call rejects, whatever the handlers, the requests and the error
\* handler do.
C2_EmitNeverRejects ==
    \A e \in EmitIds : emits[e].pc # "rejected"

\* C3: in every result emit returns, success is true exactly when errors is empty.
C3_SuccessIffNoErrors ==
    \A e \in EmitIds :
        emits[e].pc = "resolved" =>
            (emits[e].result.success <=> emits[e].result.errors = <<>>)

\* C4: once the synchronous part of an emit call is over, every target it
\* matched has received a delivery attempt (a publish or a POST), whatever
\* happened at the other targets.
C4_EveryMatchedTargetAttempted ==
    \A e \in EmitIds :
        LET em == emits[e]
        IN em.pc \in {"await", "resolved", "rejected"} =>
              \A i \in 1..Len(em.targets) :
                  \E j \in 1..Len(em.attempts) :
                      em.attempts[j].target = em.targets[i].name

\* C4 for an error handler that returns: the same statement, which holds.
C4_WhenErrorHandlerReturns ==
    errorHandler = "returns" => C4_EveryMatchedTargetAttempted

----------------------------------------------------------------------------
\* Properties of the registry.  A step of a call is a step after which `last`
\* is the record of that call; the unprimed registry is the one it was made on.

Registered(name) == name \in Keys(targets)

\* C5: an addTarget call that names a registered target returns false and
\* leaves every target that was registered, that one included, as and where it
\* was; called with that one target, it leaves the whole registry as it was.
C5_DuplicateNameRejected ==
    [][(/\ last'.op = "addTarget"
        /\ \E i \in 1..Len(last'.arg) : Registered(last'.arg[i].name))
       => /\ last'.ret = "false"
          /\ IsPrefix(targets, targets')
          /\ Len(last'.arg) = 1 => targets' = targets]_vars

\* An addTarget call was refused for a registered name whose stored fields
\* differ from the ones passed.
C5_Witness ==
    /\ last.op = "addTarget"
    /\ Len(last.arg) = 1
    /\ last.ret = "false"
    /\ Registered(last.arg[1].name)
    /\ Get(targets, last.arg[1].name) # NewTarget(last.arg[1])
    /\ Len(targets) = 2

\* The registry at the turn of entry i of an addTarget call made on reg.
AtTurn(reg, ts, i) == AddAll(reg, SubSeq(ts, 1, i - 1)).reg

\* C6: addTarget with a list returns true exactly when the name of every entry
\* was absent from the registry at that entry's turn, and every entry whose name
\* was absent at its turn is registered afterwards, as passed.
C6_BatchNotAtomic ==
    [][last'.op = "addTarget" =>
        LET ts == last'.arg
            AbsentAtTurn(i) == ts[i].name \notin Keys(AtTurn(targets, ts, i))
        IN /\ (last'.ret = "true") <=> (\A i \in 1..Len(ts) : AbsentAtTurn(i))
           /\ \A i \in 1..Len(ts) :
                AbsentAtTurn(i) =>
                    /\ ts[i].name \in Keys(targets')
                    /\ Get(targets', ts[i].name) = NewTarget(ts[i])]_vars

\* C6 for names that Object.prototype does not define: the same statement.
C6_ForOwnNames ==
    [][(last'.op = "addTarget"
        /\ \A i \in 1..Len(last'.arg) : last'.arg[i].name \notin InheritedNames) =>
        LET ts == last'.arg
            AbsentAtTurn(i) == ts[i].name \notin Keys(AtTurn(targets, ts, i))
        IN /\ (last'.ret = "true") <=> (\A i \in 1..Len(ts) : AbsentAtTurn(i))
           /\ \A i \in 1..Len(ts) :
                AbsentAtTurn(i) =>
                    /\ ts[i].name \in Keys(targets')
                    /\ Get(targets', ts[i].name) = NewTarget(ts[i])]_vars

\* The other entries of the registry are what and where they were.
OthersUnchanged(name) ==
    /\ Len(targets') = Len(targets)
    /\ \A i \in 1..Len(targets) :
          /\ targets'[i].key = targets[i].key
          /\ targets[i].key # name => targets'[i] = targets[i]

\* C7: updateTarget on a registered name returns true; the target keeps its name,
\* every field the update omits keeps its value, and supplied headers are merged
\* into the existing ones: the keys of the update override, the others survive.
C7_UpdateChangesOnlySupplied ==
    [][(last'.op = "updateTarget" /\ Registered(last'.name)) =>
        LET old == Get(targets, last'.name)
            new == Get(targets', last'.name)
            update == last'.arg
        IN /\ last'.ret = "true"
           /\ OthersUnchanged(last'.name)
           /\ new.name = old.name /\ new.name = last'.name
           /\ update.url = Undefined => new.url = old.url
           /\ update.events = None => new.events = old.events
           /\ update.headers = None => new.headers = old.headers
           /\ update.headers # None =>
                \A k \in HeaderKeys :
                    new.headers[k] = IF update.headers[1][k] # Absent
                                     THEN update.headers[1][k]
                                     ELSE old.headers[k]]_vars

\* An update that supplied only headers: one key overridden, one key of the
\* old headers surviving, url and events as before.
C7_Witness ==
    /\ last.op = "updateTarget" /\ last.ret = "true"
    /\ last.before # None
    /\ last.arg.url = Undefined /\ last.arg.events = None
    /\ last.arg.headers = Some([NoHeaders EXCEPT !["k"] = "v2"])
    /\ LET old == last.before[1]
           new == Get(targets, last.name)
       IN /\ old.headers = [k \in HeaderKeys |-> "v1"]
          /\ new.headers = [old.headers EXCEPT !["k"] = "v2"]
          /\ old.url = "http://a" /\ new.url = "http://a"
          /\ old.events # <<>> /\ new.events = old.events

\* C8: updateTarget on a registered name with events supplied stores exactly the
\* new list, so the target then matches the names of that list and no other; with
\* a url value supplied it stores that value, and an empty one makes the target
\* local.
C8_UpdateReplacesEventsAndUrl ==
    [][(last'.op = "updateTarget" /\ Registered(last'.name)) =>
        LET new == Get(targets', last'.name)
            update == last'.arg
        IN /\ update.events # None =>
                /\ new.events = update.events[1]
                /\ \A ev \in EventNames :
                      Matches(new, ev) <=>
                         (ev \in Elems(update.events[1])
                          \/ Wildcard \in Elems(update.events[1]))
           /\ update.url # Undefined =>
                /\ new.url = update.url
                /\ update.url = "" => IsLocal(new)
                /\ update.url # "" => ~IsLocal(new)]_vars

\* An update that replaced the events of a remote target matching "x" and
\* cleared its url: it is now local and matches "y" only.
C8_Witness ==
    /\ last.op = "updateTarget" /\ last.ret = "true"
    /\ last.before # None
    /\ last.arg.url = "" /\ last.arg.events = Some(<<"y">>)
    /\ LET old == last.before[1]
           new == Get(targets, last.name)
       IN /\ ~IsLocal(old) /\ Matches(old, "x") /\ ~Matches(old, "y")
          /\ IsLocal(new) /\ ~Matches(new, "x") /\ Matches(new, "y")
          /\ LocalTargets(ResolveTargets(targets, "y")) # <<>>

\* C9: addEventToTarget on a registered name returns true and changes that
\* target's events only by appending, once each, the names that were not in it;
\* a name that was in it is not added again, and the same call made again
\* changes nothing.
C9_AddEventIdempotent ==
    [][(last'.op = "addEventToTarget" /\ Registered(last'.name)) =>
        LET old == Get(targets, last'.name)
            new == Get(targets', last'.name)
            added == Elems(last'.arg)
        IN /\ last'.ret = "true"
           /\ OthersUnchanged(last'.name)
           /\ new = [old EXCEPT !.events = new.events]
           /\ IsPrefix(old.events, new.events)
           /\ Elems(new.events) = Elems(old.events) \cup added
           /\ \A ev \in added :
                Count(new.events, ev) = IF Includes(old.events, ev)
                                        THEN Count(old.events, ev) ELSE 1
           /\ added \subseteq Elems(old.events) => new.events = old.events
           /\ (last.op = "addEventToTarget" /\ last.name = last'.name
               /\ last.arg = last'.arg /\ last.ret = "true") => targets' = targets]_vars

\* A call that passed a name the events held (twice) and a new one: the new
\* one was appended once.
C9_Witness ==
    /\ last.op = "addEventToTarget" /\ last.ret = "true"
    /\ last.before # None
    /\ last.arg = <<"x", "y">>
    /\ last.before[1].events = <<"x", "x">>
    /\ Get(targets, last.name).events = <<"x", "x", "y">>

\* C10: the events of a target on which addEventToTarget has just returned true
\* hold no name twice.
C10_NoDuplicateEvents ==
    (last.op = "addEventToTarget" /\ last.ret = "true" /\ Registered(last.name)) =>
        NoDuplicates(Get(targets, last.name).events)

\* C10 as addEventToTarget keeps it: a call adds no occurrence of a name that
\* the events already hold.
C10_NoDuplicateAdded ==
    (last.op = "addEventToTarget" /\ last.ret = "true" /\ Registered(last.name)) =>
        \A ev \in EventNames :
            Count(Get(targets, last.name).events, ev)
                <= IF Count(last.before[1].events, ev) > 1
                   THEN Count(last.before[1].events, ev) ELSE 1

\* The names of the targets an emit of eventName would resolve on registry reg.
ResolvedNames(reg, eventName) ==
    {ResolveTargets(reg, eventName)[i].name :
        i \in 1..Len(ResolveTargets(reg, eventName))}

\* C11: removeTarget on a registered name returns true and deletes that entry
\* and no other, the rest staying as and where they were; no event name resolves
\* to the removed name any more; the next updateTarget, addEventToTarget or
\* removeTarget on that name returns false and changes nothing, and the next
\* addTarget of that name returns true and registers the target as passed.
C11_RemoveDeletesExactlyThat ==
    [][/\ (last'.op = "removeTarget" /\ Registered(last'.name)) =>
            LET k == IndexOf(targets, last'.name)
            IN /\ last'.ret = "true"
               /\ targets' = SubSeq(targets, 1, k - 1)
                                \o SubSeq(targets, k + 1, Len(targets))
               /\ last'.name \notin Keys(targets')
               /\ \A ev \in EventNames \cup {Wildcard} :
                     last'.name \notin ResolvedNames(targets', ev)
       /\ (last.op = "removeTarget" /\ last.ret = "true" /\ last.before # None) =>
            /\ (last'.op \in {"updateTarget", "addEventToTarget", "removeTarget"}
                /\ last'.name = last.name) =>
                    last'.ret = "false" /\ targets' = targets
            /\ (last'.op = "addTarget" /\ Len(last'.arg) = 1
                /\ last'.arg[1].name = last.name) =>
                    /\ last'.ret = "true"
                    /\ targets' = Append(targets,
                                         [key |-> last.name,
                                          obj |-> NewTarget(last'.arg[1])])]_vars

\* A target that matched "x" was removed while another was registered: the
\* other remains and still matches "x".
C11_Witness ==
    /\ last.op = "removeTarget" /\ last.ret = "true"
    /\ last.before # None
    /\ Matches(last.before[1], "x")
    /\ last.name \notin Keys(targets)
    /\ Len(targets) = 1
    /\ Matches(targets[1].obj, "x")

NameOps == {"updateTarget", "removeTarget", "addEventToTarget"}

\* C12: updateTarget, removeTarget and addEventToTarget on a name that is not
\* registered return false and leave the registry (and everything else the
\* instance can reach) as it was, and no registry call throws.
C12_UnknownNameReturnsFalse ==
    [][/\ (last'.op \in NameOps /\ ~Registered(last'.name)) =>
            /\ last'.ret = "false"
            /\ targets' = targets
            /\ inherited' = inherited
       /\ last'.op \in NameOps \cup {"addTarget"} => last'.ret # "throws"]_vars

\* C12 for names that Object.prototype does not define: the same statement.
C12_ForOwnNames ==
    [][/\ (last'.op \in NameOps /\ ~Registered(last'.name)
           /\ last'.name \notin InheritedNames) =>
            /\ last'.ret = "false"
            /\ targets' = targets
            /\ inherited' = inherited
       /\ (last'.op \in NameOps /\ last'.name \notin InheritedNames) =>
            last'.ret # "throws"
       /\ last'.op = "addTarget" => last'.ret # "throws"]_vars

----------------------------------------------------------------------------
\* Properties of dispatch.  In SpecDispatch the registry does not change while
\* an emit call is in progress, so `targets` is the registry the call resolved.

\* The registered targets whose events hold the event name or the wildcard, in
\* registry order.
Listening(reg, eventName) ==
    SelectSeq([i \in 1..Len(reg) |-> reg[i].obj],
              LAMBDA o : eventName \in Elems(o.events) \/ Wildcard \in Elems(o.events))

TargetNames(ts) == [i \in 1..Len(ts) |-> ts[i].name]

AttemptNames(em) == [j \in 1..Len(em.attempts) |-> em.attempts[j].target]

\* C13: the targets an emit call resolves for delivery are the registered
\* targets whose events hold its event name or the wildcard, each once, in
\* registry order (so that any name resolves a wildcard target); and the call
\* delivers to no other target, and to none twice.
C13_DeliversToExactlyMatching ==
    \A e \in EmitIds :
        LET em == emits[e]
        IN em.pc # "idle" =>
              /\ em.targets = Listening(targets, em.eventName)
              /\ NoDuplicates(TargetNames(em.targets))
              /\ \A i \in 1..Len(targets) :
                    Wildcard \in Elems(targets[i].obj.events) =>
                        targets[i].key \in Elems(TargetNames(em.targets))
              /\ Elems(AttemptNames(em)) \subseteq Elems(TargetNames(em.targets))
              /\ NoDuplicates(AttemptNames(em))

\* An emit of "x" has delivered once to each of two targets, one listing "x"
\* beside the wildcard and one listing "x" twice.
C13_Witness ==
    \E e \in EmitIds :
        /\ emits[e].pc \in {"await", "resolved"}
        /\ emits[e].eventName = "x"
        /\ Len(targets) = 2
        /\ \E i, j \in 1..2 : /\ targets[i].obj.events = <<"x", "*">>
                               /\ targets[j].obj.events = <<"x", "x">>
        /\ TargetNames(emits[e].targets) = [i \in 1..2 |-> targets[i].key]
        /\ Len(emits[e].attempts) = 2

\* C14: an emit call whose event name no registered target listens to (by the
\* name or by the wildcard) makes no delivery: it publishes to no handler,
\* issues no request, never invokes the error handler, and its result is
\* success = true with no errors; it neither waits nor rejects.
C14_NoMatchNoDelivery ==
    \A e \in EmitIds :
        LET em == emits[e]
        IN (em.pc # "idle" /\ Listening(targets, em.eventName) = <<>>) =>
              /\ em.pc \in {"local", "resolved"}
              /\ em.result = [success |-> TRUE, errors |-> <<>>]
              /\ em.attempts = <<>>
              /\ em.requests = <<>>
              /\ em.ehCalls = 0

\* An emit of "y" has resolved while a local target listening to "x" only was
\* registered beside handlers.
C14_Witness ==
    \E e \in EmitIds :
        /\ emits[e].pc = "resolved"
        /\ emits[e].eventName = "y"
        /\ Len(targets) = 1
        /\ IsLocal(targets[1].obj)
        /\ Len(listeners["x"]) = MaxHandlers

\* A url that is set: neither undefined nor the empty string (C8).
HasUrl(obj) == obj.url # Undefined /\ obj.url # ""

\* C15: an emit call all of whose matching targets have a url publishes to the
\* local notifier not once, so none of the handlers registered for its event
\* name with on or once is invoked; its deliveries are requests only.
C15_RemoteOnly ==
    \A e \in EmitIds :
        LET em == emits[e]
            matching == Listening(targets, em.eventName)
        IN (em.pc # "idle" /\ \A i \in 1..Len(matching) : HasUrl(matching[i])) =>
              /\ em.locals = <<>>
              /\ \A j \in 1..Len(em.attempts) : em.attempts[j].kind = "post"

\* An emit of "x" has sent its two requests to two remote targets while a
\* handler registered with on and one registered with once wait for "x".
C15_Witness ==
    \E e \in EmitIds :
        /\ emits[e].pc \in {"await", "resolved"}
        /\ emits[e].eventName = "x"
        /\ Len(emits[e].targets) = 2
        /\ Len(emits[e].attempts) = 2
        /\ \E i, j \in 1..Len(listeners["x"]) :
              listeners["x"][i].once /\ ~listeners["x"][j].once

\* The synchronous part of an emit call is over.
Handed(em) == em.pc \in {"await", "resolved", "rejected"}

\* The number of matching local targets of an emit call.
LocalCount(em) == Len(SelectSeq(Listening(targets, em.eventName), IsLocal))

\* The error entries of an emit call that record a throwing handler.
HandlerErrors(em) ==
    {j \in 1..Len(em.result.errors) : em.result.errors[j].error = "handler"}

\* The handlers registered with on for the event name of an emit call.
OnHandlers(em) ==
    {listeners[em.eventName][i].h :
        i \in {i \in 1..Len(listeners[em.eventName]) : ~listeners[em.eventName][i].once}}

\* C17: an emit call that matches k local targets has, when its synchronous
\* part is over, published k times; each publish invoked every handler
\* registered with on for the event name, and with a handler that always throws
\* among them the result holds k error entries of a throwing handler.
C17_PublishedPerLocalTarget ==
    \A e \in EmitIds :
        LET em == emits[e]
        IN /\ \A j \in LocalAttempts(em) :
                 OnHandlers(em) \subseteq Elems(em.attempts[j].called)
           /\ Handed(em) =>
                 /\ Cardinality(LocalAttempts(em)) = LocalCount(em)
                 /\ (\E h \in OnHandlers(em) : Throws(h)) =>
                        Cardinality(HandlerErrors(em)) = LocalCount(em)

\* C17 as the code keeps it: with an error handler that returns, k publishes
\* and k error entries; each publish invokes the listeners in the order they
\* were registered, up to the first that throws.
C17_WhenErrorHandlerReturns ==
    errorHandler = "returns" =>
        \A e \in EmitIds :
            LET em == emits[e]
            IN /\ \A j \in LocalAttempts(em) :
                     (~em.attempts[j].threw) =>
                         OnHandlers(em) \subseteq Elems(em.attempts[j].called)
               /\ Handed(em) =>
                     /\ Cardinality(LocalAttempts(em)) = LocalCount(em)
                     /\ (\E h \in OnHandlers(em) : Throws(h)) =>
                            Cardinality(HandlerErrors(em)) = LocalCount(em)

\* The targets an emit call published for, and those it sent a request to.
PublishedFor(em) ==
    {em.attempts[j].target : j \in {j \in 1..Len(em.attempts) : em.attempts[j].kind = "local"}}

PostedTo(em) ==
    {em.attempts[j].target : j \in {j \in 1..Len(em.attempts) : em.attempts[j].kind = "post"}}

\* The targets an emit call has published for, in the order it did.
LocalNames(em) ==
    LET ls == SelectSeq(em.attempts, LAMBDA a : a.kind = "local")
    IN [j \in 1..Len(ls) |-> ls[j].target]

\* The matching targets without a url, in registry order.
LocalListening(em) ==
    TargetNames(SelectSeq(Listening(targets, em.eventName), LAMBDA o : ~HasUrl(o)))

\* C18: an emit call makes its local deliveries before it hands its promise to
\* the caller.  While it delivers locally the call has not returned; once it has
\* returned, with every request still in flight or not, it has published for the
\* matching local targets in registry order (for the first of them if it
\* rejected), and it publishes for none afterwards.
C18_LocalDeliverySynchronous ==
    /\ [](\A e \in EmitIds :
            LET em == emits[e]
            IN /\ em.pc = "local" => running = e
               /\ IsPrefix(LocalNames(em), LocalListening(em))
               /\ Handed(em) =>
                     /\ running # e
                     /\ em.pc # "rejected" => LocalNames(em) = LocalListening(em))
    /\ [][\A e \in EmitIds :
            (Handed(emits[e]) /\ Handed(emits'[e])) =>
                LocalNames(emits'[e]) = LocalNames(emits[e])]_vars

\* An emit call has returned to its caller with its request still in flight,
\* after a publish that invoked two handlers.
C18_Witness ==
    \E e \in EmitIds :
        /\ emits[e].pc = "await" /\ running = 0
        /\ \A k \in 1..Len(emits[e].requests) : emits[e].requests[k].state = "inflight"
        /\ Len(LocalNames(emits[e])) = 1
        /\ \E j \in LocalAttempts(emits[e]) : Len(emits[e].attempts[j].called) = 2

\* C19: in one emit call no publish follows a request, and when the first
\* request is issued the call has published for every matching local target and
\* recorded an error entry for each publish that threw.
C19_LocalBeforeRemote ==
    \A e \in EmitIds :
        LET em == emits[e]
        IN /\ \A j, k \in 1..Len(em.attempts) :
                 (j < k /\ em.attempts[j].kind = "post") => em.attempts[k].kind = "post"
           /\ em.pc = "local" => em.requests = <<>> /\ PostedTo(em) = {}
           /\ (em.requests # <<>> \/ PostedTo(em) # {}) =>
                 /\ LocalNames(em) = LocalListening(em)
                 /\ Cardinality(HandlerErrors(em)) = Cardinality(LocalFailures(em))
                 /\ \A j \in HandlerErrors(em) : j <= Cardinality(LocalFailures(em))

\* An emit call has issued its request after a publish that threw, whose error
\* entry it holds.
C19_Witness ==
    \E e \in EmitIds :
        /\ emits[e].pc = "await"
        /\ \A k \in 1..Len(emits[e].requests) : emits[e].requests[k].state = "inflight"
        /\ Len(emits[e].attempts) = 2
        /\ emits[e].attempts[1].kind = "local" /\ emits[e].attempts[1].threw
        /\ emits[e].attempts[2].kind = "post"
        /\ Len(emits[e].result.errors) = 1

\* The matching targets with a url, in registry order.
RemoteListening(em) ==
    TargetNames(SelectSeq(Listening(targets, em.eventName), HasUrl))

\* The requests of an emit call whose completion has been processed.
Settled(em) == {k \in 1..Len(em.requests) : em.requests[k].state \in FetchOutcomes}

\* C20: the requests of one emit call are issued together: from the first
\* state in which one exists, and so before the completion of any is processed,
\* there is a request in flight or completed for every matching remote target,
\* and a POST has been sent to each.
C20_AllIssuedBeforeAnyCompletes ==
    \A e \in EmitIds :
        LET em == emits[e]
        IN (em.requests # <<>> \/ PostedTo(em) # {} \/ Settled(em) # {}) =>
              /\ [k \in 1..Len(em.requests) |-> em.requests[k].target] = RemoteListening(em)
              /\ \A k \in 1..Len(em.requests) :
                    em.requests[k].state \in {"inflight"} \cup FetchOutcomes
              /\ PostedTo(em) = Elems(RemoteListening(em))

\* Of the two requests of an emit call one has completed while the other is
\* still in flight.
C20_Witness ==
    \E e \in EmitIds :
        /\ emits[e].pc = "await"
        /\ Len(emits[e].requests) = 2
        /\ Cardinality(Settled(emits[e])) = 1
        /\ \E k \in 1..2 : emits[e].requests[k].state = "inflight"

----------------------------------------------------------------------------
\* Properties of dispatch when handlers call back into the instance.

\* C16: in no emit call, whatever registry calls the handlers make while it is
\* delivering, is one target both published for through the local notifier and
\* sent a request.
C16_NeverLocalAndRemote ==
    \A e \in EmitIds : PublishedFor(emits[e]) \cap PostedTo(emits[e]) = {}

\* C16 when no handler registered calls back into the instance: the same
\* statement, which holds.
C16_WhenHandlersOnlyReturn ==
    (\A i \in 1..Len(listeners["x"]) : listeners["x"][i].h \notin CallingHandlers)
        => C16_NeverLocalAndRemote

----------------------------------------------------------------------------
\* Properties of the result of emit.

\* C21: when an emit call has resolved, none of its requests is in flight, and
\* its result holds an error entry naming the target of each request that
\* failed (non-2xx response or transport failure).
C21_ResolvesAfterAllRequests ==
    \A e \in EmitIds :
        LET em == emits[e]
        IN em.pc = "resolved" =>
              /\ \A k \in 1..Len(em.requests) : em.requests[k].state \in FetchOutcomes
              /\ \A k \in FailedRequests(em) :
                    \E j \in 1..Len(em.result.errors) :
                        /\ em.result.errors[j].target = em.requests[k].target
                        /\ em.result.errors[j].event = em.eventName
                        /\ em.result.errors[j].error \in {"http", "transport"}

\* An emit call has resolved after two requests, one of which failed.
C21_Witness ==
    \E e \in EmitIds :
        /\ emits[e].pc = "resolved"
        /\ Len(emits[e].requests) = 2
        /\ Cardinality(FailedRequests(emits[e])) = 1
        /\ Len(emits[e].result.errors) >= 1

\* The number of requests an emit call has sent to the target `name`.
PostCount(em, name) ==
    Cardinality({j \in 1..Len(em.attempts) :
                    em.attempts[j].kind = "post" /\ em.attempts[j].target = name})

\* The requests an emit call has sent, in the order sent.
Posts(em) == SelectSeq(em.attempts, LAMBDA a : a.kind = "post")

\* A request is sent only by the step of an emit call that issues all of them:
\* the completion of a request, failed or not, and the return of the call send
\* nothing, and the requests of a call are forgotten only with its result.
NeverResent ==
    [][\A e \in EmitIds :
        Posts(emits'[e]) # Posts(emits[e]) =>
            \/ emits[e].pc = "local" /\ running = e /\ Posts(emits[e]) = <<>>
            \/ emits[e].pc \in {"resolved", "rejected"} /\ Posts(emits'[e]) = <<>>]_vars

\* C23: an emit call whose synchronous part is over has sent exactly one POST
\* to each matching remote target, and no request, failed or not, is sent again.
C23_ExactlyOnePost ==
    /\ [](\A e \in EmitIds :
            Handed(emits[e]) =>
                \A n \in Elems(RemoteListening(emits[e])) : PostCount(emits[e], n) = 1)
    /\ NeverResent

\* C23 as the code keeps it: at most one POST to each target in one emit call,
\* exactly one unless the call rejected, and no request is sent again.
C23_AtMostOnePost ==
    /\ [](\A e \in EmitIds :
            /\ \A n \in DispatchNames : PostCount(emits[e], n) <= 1
            /\ emits[e].pc \in {"await", "resolved"} =>
                  \A n \in Elems(RemoteListening(emits[e])) : PostCount(emits[e], n) = 1)
    /\ NeverResent


----------------------------------------------------------------------------
\* Liveness of emit.

Calls == 1..MaxOverlap

InProgress(e) == emits[e].pc \in {"local", "await"}

Hanging(e) == emits[e].pc = "await" /\ ~AllSettled(emits[e])

\* The registry operations and the next emit call can be made.
OthersProceed ==
    /\ ENABLED RemoveTarget("c")
    /\ \A f \in Calls :
          (emits[f].pc = "idle" /\ OverlapInTurn(f)) =>
              ENABLED EmitStart(f, OverlapEvent(f), OverlapData(f))

\* An emit call whose requests each complete at some time resolves.
ResolvesIfRequestsComplete ==
    \A e \in Calls :
        [](Hanging(e) => <>(~Hanging(e)))
            => (InProgress(e) ~> emits[e].pc = "resolved")

\* A call leaves its wait only by resolving, and only when all its requests
\* have completed.
WaitsForEveryRequest ==
    [][\A e \in Calls :
        (emits[e].pc = "await" /\ emits'[e].pc # "await") =>
            AllSettled(emits[e]) /\ emits'[e].pc = "resolved"]_vars

\* While a call waits for a request and nothing is executing, registry
\* operations and the next emit call can be made.
NothingBlocked ==
    [](\A e \in Calls : (Hanging(e) /\ running = 0 /\ OverlapTaken) => OthersProceed)

\* C22: an emit call whose requests each complete at some time resolves; if
\* one of them never completes the call never resolves, while registry
\* operations and other emit calls of the instance go on.
C22_EmitLiveness ==
    /\ ResolvesIfRequestsComplete
    /\ WaitsForEveryRequest
    /\ NothingBlocked

\* C22 for an error handler that returns: an emit call whose requests each
\* complete at some time resolves.
C22_WhenErrorHandlerReturns ==
    errorHandler = "returns" => ResolvesIfRequestsComplete

----------------------------------------------------------------------------
\* Properties of overlapping emit calls.

\* The target registered under `name`, as it was given to addTarget.
Given(name) == CHOOSE t \in OverlapTargets : t.name = name

\* C24: every request an emit call has sent is a POST to the url its target
\* was registered with; each of its headers is the one the target was registered
\* with where it has that header, else application/json for Content-Type and
\* absent for any other; its body is the JSON text of an object with the two
\* members eventName and data, in that order, holding what that call emitted.
C24_RequestShape ==
    \A e \in Calls :
        \A j \in 1..Len(emits[e].attempts) :
            LET a == emits[e].attempts[j]
                given == Given(a.target)
            IN a.kind = "post" =>
                  /\ a.url = given.url
                  /\ \A k \in HeaderKeys :
                        a.headers[k] =
                            IF given.headers # None /\ given.headers[1][k] # Absent
                            THEN given.headers[1][k]
                            ELSE IF k = "Content-Type" THEN "application/json" ELSE Absent
                  /\ a.body = <<Token("{"),
                                [key |-> "eventName", value |-> [string |-> OverlapEvent(e)]],
                                [key |-> "data", value |-> [string |-> OverlapData(e)]],
                                Token("}")>>
                  /\ Parse(a.body) = [kind |-> "object", eventName |-> OverlapEvent(e),
                                      data |-> OverlapData(e)]

\* Two calls overlap; the first has sent a request with the content type and the
\* extra header of its target and one with the default headers, the second a
\* request with another event name and other data.
C24_Witness ==
    /\ emits[1].pc = "await" /\ emits[2].pc = "await"
    /\ \E i, j \in 1..Len(emits[1].attempts) :
          /\ emits[1].attempts[i].kind = "post"
          /\ emits[1].attempts[i].headers["Content-Type"] = "text/plain"
          /\ emits[1].attempts[i].headers["k"] = "v1"
          /\ emits[1].attempts[j].kind = "post"
          /\ emits[1].attempts[j].headers["Content-Type"] = "application/json"
    /\ \E j \in 1..Len(emits[2].attempts) :
          /\ emits[2].attempts[j].kind = "post"
          /\ Parse(emits[2].attempts[j].body).eventName = "y"
          /\ Parse(emits[2].attempts[j].body).data = "d2"

\* The error entries the deliveries of an emit call account for: one for each
\* publish that threw, one for each request that failed, and one more where the
\* error handler threw after a non-2xx response.
OwnErrors(e) ==
    LET em == emits[e]
    IN {MakeError(em.attempts[j].target, OverlapEvent(e), "handler") :
            j \in {j \in 1..Len(em.attempts) :
                      em.attempts[j].kind = "local" /\ em.attempts[j].threw}}
       \cup {MakeError(em.requests[k].target, OverlapEvent(e), em.requests[k].state) :
                k \in FailedRequests(em)}

OwnExtra(e) ==
    {MakeError(emits[e].requests[k].target, OverlapEvent(e), "errorHandler") :
        k \in {k \in FailedRequests(emits[e]) : emits[e].requests[k].state = "http"}}

\* C26: at every moment of overlapping emit calls, with the requests of the
\* calls completing in any order, the result of each call holds an entry for
\* each delivery of that call that failed, each once, and no entry of another
\* call; its success flag is false only if it holds an entry.
C26_OwnResult ==
    \A e \in Calls :
        LET errs == emits[e].result.errors
        IN /\ OwnErrors(e) \subseteq Elems(errs)
           /\ Elems(errs) \subseteq OwnErrors(e) \cup OwnExtra(e)
           /\ \A i, j \in 1..Len(errs) : errs[i] = errs[j] => i = j
           /\ ~emits[e].result.success => errs # <<>>

\* The second call was made while requests of the first were in flight and has
\* resolved with the entry of its failed request to "b"; the first still waits
\* for a request and holds the entry of its own failed request to "b".
C26_Witness ==
    /\ emits[1].pc = "await" /\ ~AllSettled(emits[1])
    /\ \E j \in 1..Len(emits[1].result.errors) :
          emits[1].result.errors[j].target = "b"
    /\ emits[2].pc = "resolved"
    /\ \E j \in 1..Len(emits[2].result.errors) :
          emits[2].result.errors[j].target = "b"


----------------------------------------------------------------------------
\* Properties of the order of the errors.

\* The entries of the errors of an emit call whose target is local, and remote.
LocalEntries(em) ==
    {j \in 1..Len(em.result.errors) :
        em.result.errors[j].target \in Elems(LocalListening(em))}

RemoteEntries(em) ==
    {j \in 1..Len(em.result.errors) :
        em.result.errors[j].target \in Elems(RemoteListening(em))}

\* C25: in the errors of an emit call every entry of a local target comes
\* before every entry of a remote target and the entries of local targets follow
\* the order of the registry; while the call waits for its requests, entries are
\* only added at the end, and only for a failed request, in the step in which
\* that request completes.
C25_ErrorsOrder ==
    /\ [](\A e \in EmitIds :
            LET em == emits[e]
            IN /\ LocalEntries(em) \cup RemoteEntries(em) = 1..Len(em.result.errors)
               /\ \A j \in LocalEntries(em), k \in RemoteEntries(em) : j < k
               /\ \A j, k \in LocalEntries(em) :
                     j < k => IndexOf(targets, em.result.errors[j].target)
                                  < IndexOf(targets, em.result.errors[k].target))
    /\ [][\A e \in EmitIds :
            emits[e].pc = "await" =>
                /\ IsPrefix(emits[e].result.errors, emits'[e].result.errors)
                /\ \A j \in (Len(emits[e].result.errors) + 1)..Len(emits'[e].result.errors) :
                      \E k \in 1..Len(emits[e].requests) :
                          /\ emits[e].requests[k].state = "inflight"
                          /\ emits'[e].requests[k].state \in {"http", "transport"}
                          /\ emits'[e].result.errors[j].target = emits[e].requests[k].target]_vars

\* An emit call has resolved with the entries of two local targets, in registry
\* order, and then those of two failed requests, the request to the target
\* registered later having completed first.
C25_Witness ==
    \E e \in EmitIds :
        LET em == emits[e]
        IN /\ em.pc = "resolved"
           /\ Keys(targets) = {"a", "b", "c", "d"}
           /\ IndexOf(targets, "c") < IndexOf(targets, "a")
           /\ IndexOf(targets, "b") < IndexOf(targets, "d")
           /\ [j \in 1..Len(em.result.errors) |-> em.result.errors[j].target]
                 = <<"c", "a", "d", "b">>

----------------------------------------------------------------------------
\* Properties of the local notifier and of inbound events.

\* A step in which "x" is published: a deferred delivery of "x", or one turn of
\* the local deliveries of an emit call.
TickOf(ev) == Len(ticks') < Len(ticks) /\ Head(ticks).eventName = ev

LocalTurn(e) ==
    /\ emits[e].pc = "local"
    /\ Len(emits'[e].attempts) = Len(emits[e].attempts) + 1
    /\ emits'[e].attempts[Len(emits'[e].attempts)].kind = "local"

\* The handlers a step that publishes "x" invoked, in the order invoked.
CalledIn(e) ==
    IF e = 0 THEN inbound'.called ELSE emits'[e].attempts[Len(emits'[e].attempts)].called

Publishes(e) == IF e = 0 THEN TickOf("x") ELSE LocalTurn(e)

Publications == {0} \cup EmitIds

OnceAt(ls) == {i \in 1..Len(ls) : ls[i].once}

\* C27: every publication of "x", by a deferred inbound delivery or for one of
\* the local targets of an emit call, invokes each handler registered with once
\* for "x" at that time and leaves none of them registered.
C27_OnceOnFirstPublication ==
    [][\A e \in Publications :
        Publishes(e) =>
            /\ \A i \in OnceAt(listeners["x"]) : listeners["x"][i].h \in Elems(CalledIn(e))
            /\ OnceAt(listeners'["x"]) = {}]_vars

\* The listeners of ls that stay registered when a publication has invoked the
\* first n of them.
StayRegistered(ls, n) ==
    LET at == SelectSeq([i \in 1..Len(ls) |-> [l |-> ls[i], i |-> i]],
                        LAMBDA x : ~x.l.once \/ x.i > n)
    IN [j \in 1..Len(at) |-> at[j].l]

\* C27 as the code keeps it: a publication invokes the listeners in the order
\* registered up to the first that throws; the handlers registered with once
\* among those invoked are no longer registered, those after a throwing listener
\* were not invoked and stay registered.
C27_OnceUpToFirstThrow ==
    [][\A e \in Publications :
        Publishes(e) =>
            LET ls == listeners["x"]
                n == Len(CalledIn(e))
            IN /\ n <= Len(ls)
               /\ CalledIn(e) = [i \in 1..n |-> ls[i].h]
               /\ (n < Len(ls)) => Throws(ls[n].h)
               /\ listeners'["x"] = StayRegistered(ls, n)]_vars

\* The number of registrations of the handler h among the listeners ls.
Registrations(ls, h) == Cardinality({i \in 1..Len(ls) : ls[i].h = h})

\* One turn of the local deliveries of an emit call invokes registered
\* handlers only.
InvokesRegistered ==
    [][\A e \in EmitIds :
        LocalTurn(e) =>
            \A h \in Elems(CalledIn(e)) :
                Registrations(listeners[emits[e].eventName], h) > 0]_vars

\* C28: when off(E, h) has returned, h is not registered for E, and an emit of
\* E invokes registered handlers only: h is not invoked until it is registered
\* again.
C28_OffStopsInvocation ==
    /\ [](last.op = "off" => Registrations(listeners[last.arg[1]], last.arg[2]) = 0)
    /\ InvokesRegistered

\* C28 as the code keeps it: off(E, h) removes one registration of h for E, the
\* one made last, and leaves the other listeners as they are; a handler that was
\* registered once is then no longer registered.
C28_OffRemovesOneRegistration ==
    /\ [][(last'.op = "off" /\ (last' # last \/ listeners' # listeners)) =>
            LET E == last'.arg[1]
                h == last'.arg[2]
                n == Registrations(listeners[E], h)
            IN /\ Registrations(listeners'[E], h) = IF n > 0 THEN n - 1 ELSE 0
               /\ listeners'[E] = RemoveLast(listeners[E], h)
               /\ SelectSeq(listeners'[E], LAMBDA l : l.h # h)
                     = SelectSeq(listeners[E], LAMBDA l : l.h # h)
               /\ \A F \in EventNames \ {E} : listeners'[F] = listeners[F]]_vars
    /\ InvokesRegistered

\* A step that is the call handleIncomingEvent(b).
Receives(b) ==
    /\ last'.op = "handleIncomingEvent"
    /\ last'.arg = b
    /\ last' # last \/ Len(ticks') > Len(ticks)

\* handleIncomingEvent, given a well-formed envelope as an object or as its
\* JSON text, resolves and schedules one delivery of its event name and data.
SchedulesEnvelope ==
    [][\A v \in WellFormed :
        \A b \in {ObjectBody(v), TextBody(Stringify(v))} :
            Receives(b) =>
                /\ last'.ret = "resolved"
                /\ ticks' = Append(ticks, [eventName |-> v.eventName, data |-> v.data])]_vars

\* C29: handleIncomingEvent resolves for a well-formed envelope in either form
\* and schedules the same delivery for both; the deferred delivery invokes every
\* handler registered for the event name once, in the order registered, with
\* the data of the envelope.  Well-formed: an event name and JSON data.
C29_InboundDelivery ==
    /\ SchedulesEnvelope
    /\ [][\A ev \in EventNames :
            (TickOf(ev) /\ Envelope(ev, Head(ticks).data) \in WellFormed) =>
                /\ inbound'.called = [i \in 1..Len(listeners[ev]) |-> listeners[ev][i].h]
                /\ inbound'.eventName = ev
                /\ inbound'.data = Head(ticks).data]_vars

\* C29 where no handler registered for the event name throws: the same
\* statement, which holds.
C29_WhenNoHandlerThrows ==
    /\ SchedulesEnvelope
    /\ [][\A ev \in EventNames :
            (/\ TickOf(ev) /\ Envelope(ev, Head(ticks).data) \in WellFormed
             /\ \A i \in 1..Len(listeners[ev]) : ~Throws(listeners[ev][i].h)) =>
                /\ inbound'.called = [i \in 1..Len(listeners[ev]) |-> listeners[ev][i].h]
                /\ inbound'.eventName = ev
                /\ inbound'.data = Head(ticks).data
                /\ inbound'.outcome = "done"]_vars

\* C30: the step in which handleIncomingEvent accepts an envelope schedules
\* the delivery and invokes no handler: it records no delivery and removes no
\* one-time listener.  A delivery is recorded only by a later step, which takes
\* it from the queue while no call of the instance is executing.
C30_InboundDeferred ==
    [][/\ Len(ticks') > Len(ticks) =>
            /\ last'.op = "handleIncomingEvent" /\ last'.ret = "resolved"
            /\ inbound' = inbound
            /\ listeners' = listeners
            /\ emits' = emits
       /\ inbound' # inbound =>
            /\ ticks # <<>> /\ ticks' = Tail(ticks)
            /\ running = 0
            /\ last' = last
            /\ inbound'.eventName = Head(ticks).eventName
            /\ inbound'.data = Head(ticks).data]_vars

\* handleIncomingEvent has resolved for an envelope whose event name has a
\* handler registered; the delivery waits and no handler has been invoked.
C30_Witness ==
    /\ last.op = "handleIncomingEvent" /\ last.ret = "resolved"
    /\ ticks # <<>> /\ ticks[1].eventName = "x"
    /\ listeners["x"] # <<>>
    /\ inbound = NoDelivery

\* A call of handleIncomingEvent with a text that is not JSON rejects with the
\* error of JSON.parse.
RejectsWithParseError ==
    [][\A t \in NotJson : Receives(TextBody(t)) => last'.ret = "SyntaxError"]_vars

\* Such a call calls the error handler with 'parse_event', once, schedules no
\* delivery and invokes no handler.
ReportsParseEvent ==
    [][\A t \in NotJson :
        Receives(TextBody(t)) =>
            /\ last'.name = "parse_event"
            /\ last'.ret # "resolved"
            /\ ticks' = ticks
            /\ inbound' = inbound
            /\ listeners' = listeners
            /\ emits' = emits]_vars

\* C31: handleIncomingEvent with a text that is not JSON rejects with the parse
\* error, calls the error handler once with the event name 'parse_event',
\* schedules no delivery and invokes no handler.
C31_ParseFailure ==
    /\ RejectsWithParseError
    /\ ReportsParseEvent

\* C31 as the code keeps it: the error handler is called once with
\* 'parse_event', nothing is scheduled or invoked and the call rejects; it rejects
\* with the parse error if the error handler returns, else with what the error
\* handler threw.
C31_RejectsAndReports ==
    /\ ReportsParseEvent
    /\ [][\A t \in NotJson :
            Receives(TextBody(t)) =>
                /\ last'.ret \in {"SyntaxError", "errorHandlerError"}
                /\ errorHandler = "returns" => last'.ret = "SyntaxError"]_vars

\* A deferred delivery in which a handler threw calls the error handler with
\* the event name and data of the envelope, and changes the outcome of no call:
\* the call that scheduled it resolved when it scheduled it.
ReportsHandlerError ==
    [][/\ (Len(ticks') < Len(ticks) /\ inbound'.threw) =>
            /\ inbound'.reported = Some(Head(ticks))
            /\ inbound'.outcome \in {"reported", "uncaught"}
            /\ last' = last
       /\ Len(ticks') > Len(ticks) =>
            last'.op = "handleIncomingEvent" /\ last'.ret = "resolved"]_vars

\* C32: when a handler throws during a deferred delivery the error handler is
\* called with the event name and data of the envelope and no error leaves the
\* deferred callback; the call that scheduled the delivery has resolved.
C32_DeferredErrorReported ==
    /\ ReportsHandlerError
    /\ [](inbound.threw => inbound.outcome = "reported")

\* C32 for an error handler that returns: the same statement, which holds.
C32_WhenErrorHandlerReturns ==
    /\ ReportsHandlerError
    /\ [](errorHandler = "returns" => (inbound.threw => inbound.outcome = "reported"))

----------------------------------------------------------------------------
\* Properties of inbound events and the registry.

\* The posts the emit calls have sent.
AllPosts == [e \in EmitIds |-> Posts(emits[e])]

\* C33: neither the call of handleIncomingEvent nor the deferred delivery
\* changes the registry or sends a request, and the deferred delivery invokes
\* the listeners of the event name, from the first on, whatever targets are
\* registered: it invokes one whenever one is registered.
C33_InboundIgnoresRegistry ==
    [][(Len(ticks') # Len(ticks) \/ (last'.op = "handleIncomingEvent" /\ last' # last)) =>
          /\ targets' = targets
          /\ inherited' = inherited
          /\ emits' = emits
          /\ Len(ticks') < Len(ticks) =>
                LET ls == listeners[Head(ticks).eventName]
                IN /\ IsPrefix(inbound'.called, [i \in 1..Len(ls) |-> ls[i].h])
                   /\ ls # <<>> => inbound'.called # <<>>]_vars

\* An inbound event has been delivered to a handler while the only target
\* registered is a remote one that matches the event, and while no target is
\* matched locally no request was sent for it.
C33_Witness ==
    /\ inbound.eventName = "x" /\ inbound.called # <<>>
    /\ Len(targets) = 1
    /\ HasUrl(targets[1].obj) /\ Matches(targets[1].obj, "x")
    /\ \A e \in EmitIds : emits[e].pc = "idle"
    /\ last.op = "handleIncomingEvent"

----------------------------------------------------------------------------
\* Properties of the middleware.

\* The middleware is called with the r-th request in this step.
Arrives(r) == reqs[r].pc = "idle" /\ reqs'[r].pc # "idle"

\* C34: the middleware passes every request that is not a POST through: it
\* calls the continuation, when there is one, once and without an error, reads
\* neither req.body nor the stream, sets no status, does not end the response,
\* hands nothing to handleIncomingEvent and schedules no delivery, and it has
\* nothing left to do for the request.
C34_NonPostPassesThrough ==
    [][\A r \in 1..MaxRequests :
          Arrives(r) /\ reqs'[r].method # "POST" =>
              /\ reqs'[r].pc = "done"
              /\ reqs'[r].nextCalls = (IF reqs'[r].next THEN <<"none">> ELSE <<>>)
              /\ reqs'[r].read = "none"
              /\ reqs'[r].statusCode = Undefined
              /\ reqs'[r].ended = <<>>
              /\ reqs'[r].handed = None
              /\ reqs'[r].returned = "resolved"
              /\ UNCHANGED <<ticks, inbound, targets, listeners>>]_vars

C34_Witness ==
    \E r \in 1..MaxRequests :
        /\ reqs[r].method = "GET"
        /\ reqs[r].next
        /\ reqs[r].nextCalls = <<"none">>
        /\ listeners["x"] # <<>>

\* The requests that the middleware has answered and the server still holds.
Answered == {r \in 1..MaxRequests : reqs[r].pc = "done" /\ reqs[r].method = "POST"}

\* C35: a POST request whose payload handleIncomingEvent accepted is answered
\* with status 202, one res.end() without a body, and no call of the
\* continuation; this is so in every state after, also when a handler has
\* thrown in the deferred delivery.
C35_AcceptedIs202 ==
    \A r \in Answered :
        reqs[r].outcome = "resolved" =>
            /\ reqs[r].statusCode = 202
            /\ reqs[r].ended = <<None>>
            /\ reqs[r].nextCalls = <<>>

C35_Witness ==
    \E r \in Answered :
        /\ reqs[r].outcome = "resolved"
        /\ reqs[r].next
        /\ reqs[r].statusCode = 202
        /\ reqs[r].handed = Some(ObjectBody(Envelope("x", "d1")))
        /\ inbound.threw
        /\ inbound.data = "d1"

\* The payload of the r-th request is handed to handleIncomingEvent in this
\* step.
Hands(r) == reqs[r].pc # "awaiting" /\ reqs'[r].pc = "awaiting"

\* The middleware answers the r-th request in this step.
Answers(r) == reqs[r].pc = "awaiting" /\ reqs'[r].pc = "done"

Rejections == {"SyntaxError", "TypeError", "errorHandlerError"}

\* C36: a POST request whose payload handleIncomingEvent rejects is answered
\* with status 400 and one res.end with the text of {"error": "Invalid event
\* format"}; the continuation, when supplied, is called once, with the error
\* that handleIncomingEvent threw; the middleware's own promise resolves; and
\* neither handing the payload nor answering schedules a delivery.
C36_RejectedIs400 ==
    /\ [](\A r \in Answered :
            reqs[r].outcome # "resolved" =>
                /\ reqs[r].outcome \in Rejections
                /\ reqs[r].statusCode = 400
                /\ reqs[r].ended = <<Some(ErrorText)>>
                /\ reqs[r].nextCalls = (IF reqs[r].next THEN <<reqs[r].outcome>> ELSE <<>>)
                /\ reqs[r].returned = "resolved")
    /\ [][\A r \in 1..MaxRequests :
            /\ Hands(r) /\ reqs'[r].outcome # "resolved" =>
                  UNCHANGED <<ticks, inbound, targets, listeners>>
            /\ Answers(r) => UNCHANGED <<ticks, inbound, targets, listeners>>]_vars

C36_Witness ==
    \E r \in Answered :
        /\ reqs[r].outcome = "SyntaxError"
        /\ reqs[r].next
        /\ reqs[r].read = "stream"
        /\ reqs[r].statusCode = 400
        /\ reqs[r].nextCalls = <<"SyntaxError">>
        /\ listeners["x"] # <<>>

\* The chunks one after the other.
RECURSIVE Concat(_)
Concat(chunks) == IF chunks = <<>> THEN <<>> ELSE Head(chunks) \o Concat(Tail(chunks))

\* The requests whose body is streamed.
Streamed == {r \in 1..MaxRequests : reqs[r].read = "stream"}

\* Nothing is handed over and nothing is answered while chunks arrive, and a
\* request is answered once, with 202 or 400.
AnsweredOnceAfterEnd ==
    \A r \in Streamed :
        /\ reqs[r].pc = "streaming" =>
              reqs[r].handed = None /\ reqs[r].statusCode = Undefined /\ reqs[r].ended = <<>>
        /\ reqs[r].pc = "awaiting" =>
              /\ reqs[r].stream = <<>>
              /\ reqs[r].statusCode = Undefined /\ reqs[r].ended = <<>>
        /\ reqs[r].pc = "done" =>
              reqs[r].statusCode \in {202, 400} /\ Len(reqs[r].ended) = 1

\* The end listener hands over the text of the chunks that arrived, in the
\* order they arrived in.
HandsConcatenation ==
    \A r \in 1..MaxRequests :
        Hands(r) /\ reqs'[r].read = "stream" =>
            /\ reqs[r].pc = "streaming" /\ reqs[r].stream = <<>>
            /\ reqs'[r].handed = Some(TextBody(TextOf(Decoded(Concat(reqs[r].arrived)))))

\* No chunk that arrived ends inside a character.
CutsNoCharacter(r) ==
    \A k \in 1..Len(reqs[r].arrived) :
        reqs[r].arrived[k][Len(reqs[r].arrived[k])].part # "first"

\* C37: for a POST request without a materialized body the middleware hands
\* handleIncomingEvent the concatenation of the chunks in the order they
\* arrived, in the end listener and not before, and it answers the request
\* once, with 202 or 400, and not before the end.
C37_StreamedPayload ==
    /\ []AnsweredOnceAfterEnd
    /\ [][HandsConcatenation]_vars

\* C37 as the code keeps it: the payload is the concatenation when no chunk
\* ends inside a character.
C37_WhenNoCharacterIsCut ==
    /\ []AnsweredOnceAfterEnd
    /\ [][\A r \in 1..MaxRequests :
            Hands(r) /\ reqs'[r].read = "stream" /\ CutsNoCharacter(r) =>
                /\ reqs[r].pc = "streaming" /\ reqs[r].stream = <<>>
                /\ reqs'[r].handed = Some(TextBody(TextOf(Decoded(Concat(reqs[r].arrived)))))]_vars

\* C37, the end is answered: once the end listener has run the request is
\* answered at last.
C37_EndIsAnswered ==
    \A r \in 1..MaxRequests :
        (reqs[r].pc = "awaiting" /\ reqs[r].read = "stream") ~> (reqs[r].pc = "done")

\* The same while the process lives.
C37_EndIsAnsweredWhileAlive ==
    \A r \in 1..MaxRequests :
        (reqs[r].pc = "awaiting" /\ reqs[r].read = "stream")
            ~> (reqs[r].pc = "done" \/ ~Alive)

----------------------------------------------------------------------------
\* Properties of emit while the registry changes.

\* The names of the targets in the array an emit call resolved.
SnapNames(em) == {em.targets[i].name : i \in 1..Len(em.targets)}

\* The names of the targets the registry holds that match the event.
MatchedNow(eventName) ==
    LET ts == ResolveTargets(targets, eventName)
    IN {ts[i].name : i \in 1..Len(ts)}

\* The error entries that this step adds to the result of the e-th call name
\* the targets of requests that this step completes.
NewEntriesNameRequests(e) ==
    \A j \in (Len(emits[e].result.errors) + 1)..Len(emits'[e].result.errors) :
        \E k \in 1..Len(emits[e].requests) :
            /\ emits[e].requests[k].state = "inflight"
            /\ emits'[e].requests[k].state # "inflight"
            /\ emits'[e].result.errors[j].target = Posts(emits[e])[k].target

\* An emit call delivers to the targets that matched when it started, whatever
\* is added or removed later.
DeliversToSnapshot ==
    \A e \in EmitIds :
        emits[e].pc \in {"await", "resolved"} =>
            PublishedFor(emits[e]) \cup PostedTo(emits[e]) = SnapNames(emits[e])

SnapshotKept ==
    \A e \in EmitIds :
        /\ emits[e].pc \in {"idle", "resolved", "rejected"} /\ emits'[e].pc = "local" =>
              SnapNames(emits'[e]) = MatchedNow(emits'[e].eventName)
        /\ emits[e].pc \in {"local", "await"} /\ emits'[e].pc # "idle" =>
              SnapNames(emits'[e]) = SnapNames(emits[e])
        /\ emits[e].pc = "await" /\ emits'[e].pc # "idle" =>
              /\ Posts(emits'[e]) = Posts(emits[e])
              /\ Len(emits'[e].requests) = Len(emits[e].requests)
              /\ \A k \in 1..Len(emits[e].requests) :
                    emits'[e].requests[k].target = Posts(emits[e])[k].target
              /\ NewEntriesNameRequests(e)

\* C38: the targets of an emit call are those that matched when it started:
\* the array it resolved keeps its names at every step of the call, whatever a
\* handler or the program adds or removes meanwhile, and the call has
\* delivered, locally or by request, to exactly those once its requests are
\* issued; from then on no step, updateTarget and removeTarget included,
\* changes the url, headers or body of a request, and an error entry names the
\* target the failed request was issued for.
C38_SnapshotAtStart ==
    /\ []DeliversToSnapshot
    /\ [][SnapshotKept]_vars

\* An emit call has resolved after a handler removed the local target "a" and
\* the program moved the remote target "b" while the request to it was in
\* flight: "a" was published for, the request went to the url "b" had, and the
\* error entry names "b".
C38_Witness ==
    \E e \in EmitIds :
        /\ emits[e].pc = "resolved"
        /\ "a" \notin Keys(targets)
        /\ "a" \in PublishedFor(emits[e])
        /\ "b" \in Keys(targets)
        /\ Get(targets, "b").url = "http://moved"
        /\ \E k \in 1..Len(Posts(emits[e])) :
              /\ Posts(emits[e])[k].target = "b"
              /\ Posts(emits[e])[k].url = "http://b"
        /\ \E j \in 1..Len(emits[e].result.errors) : emits[e].result.errors[j].target = "b"

----------------------------------------------------------------------------
\* Properties of the registry under all the operations.

\* No name is stored twice, and each target is stored under its name.
RegistryWellFormed ==
    /\ \A i, j \in 1..Len(targets) : targets[i].key = targets[j].key => i = j
    /\ \A i \in 1..Len(targets) : targets[i].obj.name = targets[i].key

\* The names given in a list passed to addTarget.
GivenNames(ts) == {ts[i].name : i \in 1..Len(ts)}

\* A step that changes the set of registered names is an addTarget call that
\* adds names it was given and leaves the targets there were as they are, or a
\* removeTarget call that returns true and removes the one name it was given.
NamesChangeByAddOrRemove ==
    Keys(targets') # Keys(targets) =>
        \/ /\ last'.op = "addTarget"
           /\ Keys(targets) \subseteq Keys(targets')
           /\ Keys(targets') \ Keys(targets) \subseteq GivenNames(last'.arg)
           /\ \A n \in Keys(targets) : Get(targets', n) = Get(targets, n)
        \/ /\ last'.op = "removeTarget"
           /\ last'.ret = "true"
           /\ last'.name \in Keys(targets)
           /\ Keys(targets') = Keys(targets) \ {last'.name}
           /\ \A n \in Keys(targets') : Get(targets', n) = Get(targets, n)

\* A step of an emit call, of handleIncomingEvent or of a deferred delivery
\* leaves the registry as it is.
DispatchKeepsRegistry ==
    (\/ emits' # emits
     \/ ticks' # ticks
     \/ inbound' # inbound
     \/ last' # last /\ last'.op \in {"emit", "handleIncomingEvent"})
        => UNCHANGED <<targets, inherited>>

\* C39: whatever addTarget, updateTarget, removeTarget, addEventToTarget, emit
\* and handleIncomingEvent calls were made, the registry holds at most one
\* target per name and each target under its own name; the set of names changes
\* only by an addTarget that registers entries (it adds) or by a removeTarget
\* that returns true (it removes exactly the one name); and no step of emit or
\* of handleIncomingEvent changes the registry.
C39_RegistryInvariant ==
    /\ []RegistryWellFormed
    /\ [][NamesChangeByAddOrRemove /\ DispatchKeepsRegistry]_vars

\* Both names are registered, "a" after it was removed and added again, and
\* an emit call and an inbound delivery have taken place.
C39_Witness ==
    /\ Keys(targets) = {"a", "b"}
    /\ targets[1].key = "b"
    /\ last.op = "emit"
    /\ inbound.outcome # "none"
    /\ \E e \in EmitIds : emits[e].pc = "resolved" /\ Len(emits[e].attempts) = 2

----------------------------------------------------------------------------
\* Properties of the error entries of a result.

\* Each entry of the errors of a result names a target of the call and carries
\* its event name.
EntriesNameMatched(em) ==
    \A j \in 1..Len(em.result.errors) :
        /\ em.result.errors[j].target \in SnapNames(em)
        /\ em.result.errors[j].event = em.eventName

\* No two entries of the errors of a result name the same target.
OneEntryPerTarget(em) ==
    \A i, j \in 1..Len(em.result.errors) :
        em.result.errors[i].target = em.result.errors[j].target => i = j

\* C40: in the result of every emit call that resolved, whatever the error
\* handler does, each entry of errors names a target that the call matched and
\* carries the emitted event name, and no target is named by two entries.
C40_OneEntryPerMatchedTarget ==
    \A e \in EmitIds :
        emits[e].pc = "resolved" =>
            EntriesNameMatched(emits[e]) /\ OneEntryPerTarget(emits[e])

\* C40 as the code keeps it: the entries name matched targets and carry the
\* event name for every error handler, and no target is named twice when the
\* error handler returns.
C40_WhenErrorHandlerReturns ==
    \A e \in EmitIds :
        emits[e].pc = "resolved" =>
            /\ EntriesNameMatched(emits[e])
            /\ errorHandler = "returns" => OneEntryPerTarget(emits[e])

====
